---------------------------- MODULE Spec2Model ----------------------------
(***************************************************************************)
(* Confidential token ledger of VeilPayProtocol/cvct_payroll.              *)
(*                                                                         *)
(*   programs/cvct_payroll  the synchronous program: every instruction     *)
(*                          calls the encrypted-arithmetic primitives      *)
(*                          inline (as_euint128, e_add, e_sub, e_ge,       *)
(*                          e_select, allow) and carries the payroll       *)
(*                          scheduler.                                     *)
(*   programs/cvct          the asynchronous program: an instruction       *)
(*                          queues a computation, the cluster executes     *)
(*                          the circuit of encrypted-ixs and a callback    *)
(*                          commits the signed output.  Its instructions   *)
(*                          and records carry the prefix arc_ / Arc.       *)
(*                                                                         *)
(* Addresses are modelled by the seeds they are derived from, so that two  *)
(* program-derived addresses are equal exactly when their seeds are.       *)
(***************************************************************************)
EXTENDS Integers, Sequences, FiniteSets, TLC

(***************************************************************************)
(* Bounds of the model.                                                    *)
(***************************************************************************)
InitTokens == 1      \* backing tokens each wallet starts with
MaxAmount  == 1      \* largest plaintext amount an instruction is given
MaxSupply  == 2      \* deposits stop once a mint's total supply reaches this
MaxAccounts == 2     \* CVCT accounts created under SpecPayroll
MaxTime    == 3      \* the clock stops advancing here
MaxRate    == 1      \* largest payroll rate
U128       == 4096   \* stands for 2^128: encrypted arithmetic wraps here
U64        == 16     \* stands for 2^64: the width of a payroll rate and amount
ArcInitTokens == 2   \* backing tokens of each wallet (asynchronous program)
MaxJobs    == 4      \* computation offsets 1..MaxJobs
FieldMod   == 101    \* stands for the order of the cipher's field
MaxNonce   == 2      \* nonces 1..MaxNonce a client may pass
Fund       == 6      \* backing tokens of each wallet when a payroll is funded
MaxClock   == 5      \* the clock of a funded payroll stops advancing here

Wallets     == {<<"u1">>, <<"u2">>}          \* signers
BackingMint == <<"backing_mint">>            \* the SPL mint behind every CVCT mint
Intervals   == {1, 2}                        \* payroll intervals tried

(***************************************************************************)
(* Program-derived addresses (the seeds of the #[account(seeds = ..)]      *)
(* constraints).                                                           *)
(***************************************************************************)
MintPda(authority)         == <<"cvct_mint", authority>>
VaultPda(authority)        == <<"vault", authority>>
AccountPda(mint, owner)    == <<"cvct_account", mint, owner>>
AtaPda(mint, owner)        == <<"ata", mint, owner>>
OrgPda(authority)          == <<"org", authority>>
OrgTreasuryPda(org)        == <<"org_treasury", org>>
PayrollPda(org, admin)     == <<"payroll", org, admin>>
PayrollMemberPda(p, rcp)   == <<"payroll_member", p, rcp>>
AllowancePda(grantee)      == <<"allowance", grantee>>

VARIABLES
    CvctMint,        \* address -> [authority, backing_mint, total_supply]
    Vault,           \* address -> [cvct_mint, backing_mint, backing_token_account, total_locked]
    CvctAccount,     \* address -> [owner, cvct_mint, balance]
    TokenAccount,    \* address -> [mint, owner, amount]   (SPL token program)
    Organization,    \* address -> [authority, cvct_mint, cvct_treasury_vault]
    Payroll,         \* address -> [org, interval, last_run, active]
    PayrollMember,   \* address -> [payroll, cvct_wallet, rate, last_paid, active]
    now,             \* Clock::get()?.unix_timestamp
    lastOp,          \* the last instruction: name, arguments, result, primitive calls
    \* ---- the asynchronous program (programs/cvct) ----
    ArcCvctMint,     \* address -> [authority, backing_mint, authority_enc_pubkey,
                     \*             total_supply, total_supply_nonce]
    ArcVault,        \* address -> [cvct_mint, backing_mint, backing_token_account,
                     \*             total_locked, total_locked_nonce]
    ArcCvctAccount,  \* address -> [owner, cvct_mint, owner_enc_pubkey, balance, balance_nonce]
    ArcTokenAccount, \* address -> [mint, owner, amount]
    Computation,     \* computation_offset -> the job queued under it
    arcOp            \* the last instruction or cluster step of the asynchronous program

ledger  == <<CvctMint, Vault, CvctAccount, TokenAccount>>
payroll == <<Organization, Payroll, PayrollMember>>
sync    == <<CvctMint, Vault, CvctAccount, TokenAccount,
             Organization, Payroll, PayrollMember, now, lastOp>>
arcLedger == <<ArcCvctMint, ArcVault, ArcCvctAccount>>
arc     == <<ArcCvctMint, ArcVault, ArcCvctAccount, ArcTokenAccount, Computation, arcOp>>
vars    == <<CvctMint, Vault, CvctAccount, TokenAccount,
             Organization, Payroll, PayrollMember, now, lastOp,
             ArcCvctMint, ArcVault, ArcCvctAccount, ArcTokenAccount, Computation, arcOp>>

None == <<"none">>

(***************************************************************************)
(* The encrypted-arithmetic service.  A handle (Euint128 / Ebool) names a  *)
(* ciphertext held by the service; the program never sees the plaintext.   *)
(* A handle is modelled by the plaintext the service holds for it, which   *)
(* only decrypted() reads.  The capability grants (allow) are calls to the *)
(* service that leave the ledger records alone: they appear in the call    *)
(* log of the instruction, with the identity they were granted to.         *)
(***************************************************************************)
as_euint128(value)    == [val |-> value % U128]
ClientCiphertext(v)   == <<"ciphertext", v>>
new_euint128(ciphertext, input_type) == [val |-> ciphertext[2] % U128]
e_add(lhs, rhs)       == [val |-> (lhs.val + rhs.val) % U128]
e_sub(lhs, rhs)       == [val |-> (lhs.val - rhs.val) % U128]
e_ge_strict(lhs, rhs) == [val |-> (lhs.val > rhs.val)]
e_ge(lhs, rhs)        == [val |-> (lhs.val >= rhs.val)]
e_select(cond, a, b)  == [val |-> (IF cond.val THEN a.val ELSE b.val)]
allow(handle, allowed_pubkey) == <<"allow", handle, allowed_pubkey>>

decrypted(handle) == handle.val

(***************************************************************************)
(* call_allow_from_remaining: remaining_accounts[offset] is the allowance  *)
(* account, remaining_accounts[offset + 1] the allowed address.  The       *)
(* service rejects the call when the two do not belong to the grantee.     *)
(***************************************************************************)
NoGrant == [ok |-> TRUE, err |-> "", calls |-> <<>>]   \* the grant was skipped

call_allow_from_remaining(remaining_accounts, handle, allowed_pubkey, account_offset) ==
    IF Len(remaining_accounts) < account_offset + 2
    THEN [ok |-> FALSE, err |-> "InvalidAllowanceAccounts", calls |-> <<>>]
    ELSE LET allowance_account == remaining_accounts[account_offset + 1]
             allowed_address   == remaining_accounts[account_offset + 2]
         IN  IF /\ allowance_account = AllowancePda(allowed_pubkey)
                /\ allowed_address = allowed_pubkey
             THEN [ok |-> TRUE, err |-> "", calls |-> <<allow(handle, allowed_pubkey)>>]
             ELSE [ok |-> FALSE, err |-> "AllowRejected", calls |-> <<>>]

(***************************************************************************)
(* The record of the last instruction.                                     *)
(***************************************************************************)
Op(name, ok, err, calls, acct, to, amount) ==
    [op |-> name, ok |-> ok, err |-> err, calls |-> calls,
     acct |-> acct, to |-> to, amount |-> amount]

\* an account constraint of the #[derive(Accounts)] struct failed
Rejected(name, err) ==
    /\ lastOp' = Op(name, FALSE, err, <<>>, None, None, 0)
    /\ UNCHANGED <<ledger, payroll, now>>

\* the handler failed: the transaction is rolled back
Failed(name, err, acct, to, amount) ==
    /\ lastOp' = Op(name, FALSE, err, <<>>, acct, to, amount)
    /\ UNCHANGED <<ledger, payroll, now>>

(***************************************************************************)
(* initialize_cvct_mint                                                    *)
(***************************************************************************)
initialize_cvct_mint(authority) ==
    LET cvct_mint == MintPda(authority)
        vault == VaultPda(authority)
        vault_token_account == AtaPda(BackingMint, vault)
    IN
    IF cvct_mint \in DOMAIN CvctMint \/ vault \in DOMAIN Vault
    THEN Rejected("initialize_cvct_mint", "AccountInUse")
    ELSE
    LET zero_supply == as_euint128(0)
        zero_locked == as_euint128(0)
    IN
    /\ CvctMint' = CvctMint @@ (cvct_mint :>
            [authority |-> authority, backing_mint |-> BackingMint,
             total_supply |-> zero_supply])
    /\ Vault' = Vault @@ (vault :>
            [cvct_mint |-> cvct_mint, backing_mint |-> BackingMint,
             backing_token_account |-> vault_token_account,
             total_locked |-> zero_locked])
    /\ TokenAccount' = TokenAccount @@ (vault_token_account :>
            [mint |-> BackingMint, owner |-> vault, amount |-> 0])
    /\ lastOp' = Op("initialize_cvct_mint", TRUE, "",
                    <<<<"as_euint128">>, <<"as_euint128">>>>, None, None, 0)
    /\ UNCHANGED <<CvctAccount, payroll, now>>

(***************************************************************************)
(* initialize_cvct_account                                                 *)
(***************************************************************************)
initialize_cvct_account(cvct_mint, owner) ==
    LET cvct_account == AccountPda(cvct_mint, owner) IN
    IF cvct_account \in DOMAIN CvctAccount
    THEN Rejected("initialize_cvct_account", "AccountInUse")
    ELSE
    LET zero_balance == as_euint128(0) IN
    /\ CvctAccount' = CvctAccount @@ (cvct_account :>
            [owner |-> owner, cvct_mint |-> cvct_mint, balance |-> zero_balance])
    /\ lastOp' = Op("initialize_cvct_account", TRUE, "", <<<<"as_euint128">>>>,
                    cvct_account, None, 0)
    /\ UNCHANGED <<CvctMint, Vault, TokenAccount, payroll, now>>

(***************************************************************************)
(* SPL token transfer (external, atomic): fails on insufficient funds.     *)
(***************************************************************************)
TransferOk(from, amount) == TokenAccount[from].amount >= amount

transfer(tokens, from, to, amount) ==
    [tokens EXCEPT ![from].amount = @ - amount, ![to].amount = @ + amount]

(***************************************************************************)
(* deposit_and_mint                                                        *)
(***************************************************************************)
\* steps 2 and 3 of the handler: the amount is encrypted and added to the
\* balance, the total supply and the total locked
deposit_and_mint_updates(balance, total_supply, total_locked, amount) ==
    LET encrypted_amount == as_euint128(amount) IN
    [new_balance |-> e_add(balance, encrypted_amount),
     new_supply  |-> e_add(total_supply, encrypted_amount),
     new_locked  |-> e_add(total_locked, encrypted_amount),
     calls |-> <<<<"as_euint128">>, <<"e_add">>, <<"e_add">>, <<"e_add">>>>]

DepositAndMintAccounts_any_vault(cvct_mint, vault, cvct_account, user, user_token_account, vault_token_account) ==
    IF CvctAccount[cvct_account].cvct_mint # cvct_mint THEN "ConstraintRaw"
    ELSE IF CvctAccount[cvct_account].owner # user THEN "Unauthorized"
    ELSE IF TokenAccount[user_token_account].mint # CvctMint[cvct_mint].backing_mint
         THEN "ConstraintRaw"
    ELSE IF TokenAccount[user_token_account].owner # user THEN "ConstraintRaw"
    ELSE ""

DepositAndMintAccounts(cvct_mint, vault, cvct_account, user, user_token_account, vault_token_account) ==
    IF Vault[vault].cvct_mint # cvct_mint THEN "InvalidVault"
    ELSE IF CvctAccount[cvct_account].cvct_mint # cvct_mint THEN "ConstraintRaw"
    ELSE IF CvctAccount[cvct_account].owner # user THEN "Unauthorized"
    ELSE IF TokenAccount[user_token_account].mint # CvctMint[cvct_mint].backing_mint
         THEN "ConstraintRaw"
    ELSE IF TokenAccount[user_token_account].owner # user THEN "ConstraintRaw"
    ELSE IF vault_token_account # Vault[vault].backing_token_account THEN "ConstraintRaw"
    ELSE ""

\* a variant that drops the result of the custody transfer: the encrypted
\* increments follow whether tokens moved or not
deposit_and_mint_unchecked_transfer(cvct_mint, vault, cvct_account, user, user_token_account, vault_token_account, amount, remaining_accounts) ==
    LET cerr == DepositAndMintAccounts(cvct_mint, vault, cvct_account, user,
                                       user_token_account, vault_token_account)
        new == deposit_and_mint_updates(CvctAccount[cvct_account].balance,
                                        CvctMint[cvct_mint].total_supply,
                                        Vault[vault].total_locked, amount)
    IN
    IF cerr # "" THEN Rejected("deposit_and_mint", cerr)
    ELSE
    /\ TokenAccount' = IF TransferOk(user_token_account, amount)
                       THEN transfer(TokenAccount, user_token_account,
                                     vault_token_account, amount)
                       ELSE TokenAccount
    /\ CvctAccount' = [CvctAccount EXCEPT ![cvct_account].balance = new.new_balance]
    /\ CvctMint' = [CvctMint EXCEPT ![cvct_mint].total_supply = new.new_supply]
    /\ Vault' = [Vault EXCEPT ![vault].total_locked = new.new_locked]
    /\ lastOp' = Op("deposit_and_mint", TRUE, "", <<<<"transfer">>>> \o new.calls,
                    cvct_account, None, amount)
    /\ UNCHANGED <<payroll, now>>

deposit_and_mint(cvct_mint, vault, cvct_account, user, user_token_account, vault_token_account, amount, remaining_accounts) ==
    LET cerr == DepositAndMintAccounts(cvct_mint, vault, cvct_account, user,
                                       user_token_account, vault_token_account)
    IN
    IF cerr # "" THEN Rejected("deposit_and_mint", cerr)
    ELSE IF ~TransferOk(user_token_account, amount)
    THEN Failed("deposit_and_mint", "TokenInsufficientFunds", cvct_account, None, amount)
    ELSE
    LET new == deposit_and_mint_updates(CvctAccount[cvct_account].balance,
                                        CvctMint[cvct_mint].total_supply,
                                        Vault[vault].total_locked, amount)
        new_balance == new.new_balance
        new_supply  == new.new_supply
        new_locked  == new.new_locked
        grant == IF Len(remaining_accounts) >= 2
                 THEN call_allow_from_remaining(remaining_accounts, new_balance,
                                                CvctAccount[cvct_account].owner, 0)
                 ELSE NoGrant
        calls == <<<<"transfer">>>> \o new.calls \o grant.calls
    IN
    IF ~grant.ok
    THEN Failed("deposit_and_mint", grant.err, cvct_account, None, amount)
    ELSE
    /\ TokenAccount' = transfer(TokenAccount, user_token_account,
                                vault_token_account, amount)
    /\ CvctAccount' = [CvctAccount EXCEPT ![cvct_account].balance = new_balance]
    /\ CvctMint' = [CvctMint EXCEPT ![cvct_mint].total_supply = new_supply]
    /\ Vault' = [Vault EXCEPT ![vault].total_locked = new_locked]
    /\ lastOp' = Op("deposit_and_mint", TRUE, "", calls, cvct_account, None, amount)
    /\ UNCHANGED <<payroll, now>>

(***************************************************************************)
(* burn_and_withdraw                                                       *)
(***************************************************************************)
\* a variant that takes the requested amount off the total locked, as the
\* custody transfer does
burn_and_withdraw_updates_requested(balance, total_supply, total_locked, amount) ==
    LET encrypted_amount == as_euint128(amount)
        has_sufficient == e_ge(balance, encrypted_amount)
        zero_value  == as_euint128(0)
        burn_amount == e_select(has_sufficient, encrypted_amount, zero_value)
    IN
    [new_balance |-> e_sub(balance, burn_amount),
     new_supply  |-> e_sub(total_supply, burn_amount),
     new_locked  |-> e_sub(total_locked, encrypted_amount),
     calls |-> <<<<"as_euint128">>, <<"e_ge">>, <<"as_euint128">>, <<"e_select">>,
                 <<"e_sub">>, <<"e_sub">>, <<"e_sub">>>>]

\* steps 1 to 4 of the handler: the burn amount is selected obliviously and
\* subtracted from the balance, the total supply and the total locked
burn_and_withdraw_updates(balance, total_supply, total_locked, amount) ==
    LET encrypted_amount == as_euint128(amount)
        has_sufficient == e_ge(balance, encrypted_amount)
        zero_value  == as_euint128(0)
        burn_amount == e_select(has_sufficient, encrypted_amount, zero_value)
    IN
    [new_balance |-> e_sub(balance, burn_amount),
     new_supply  |-> e_sub(total_supply, burn_amount),
     new_locked  |-> e_sub(total_locked, burn_amount),
     calls |-> <<<<"as_euint128">>, <<"e_ge">>, <<"as_euint128">>, <<"e_select">>,
                 <<"e_sub">>, <<"e_sub">>, <<"e_sub">>>>]

BurnAndWithdrawAccounts(cvct_mint, vault, cvct_account, user, user_token_account, vault_token_account) ==
    IF vault # VaultPda(CvctMint[cvct_mint].authority) THEN "ConstraintSeeds"
    ELSE DepositAndMintAccounts(cvct_mint, vault, cvct_account, user,
                                user_token_account, vault_token_account)

\* a variant in which a failed custody transfer leaves the decrements in place
burn_and_withdraw_keeps_decrements(cvct_mint, vault, cvct_account, user, user_token_account, vault_token_account, amount, remaining_accounts) ==
    LET cerr == BurnAndWithdrawAccounts(cvct_mint, vault, cvct_account, user,
                                        user_token_account, vault_token_account)
    IN
    IF cerr # "" THEN Rejected("burn_and_withdraw", cerr)
    ELSE
    LET new == burn_and_withdraw_updates(CvctAccount[cvct_account].balance,
                                         CvctMint[cvct_mint].total_supply,
                                         Vault[vault].total_locked, amount)
        new_balance == new.new_balance
        new_supply  == new.new_supply
        new_locked  == new.new_locked
        grant == IF Len(remaining_accounts) >= 2
                 THEN call_allow_from_remaining(remaining_accounts, new_balance,
                                                CvctAccount[cvct_account].owner, 0)
                 ELSE NoGrant
        calls == new.calls \o <<<<"transfer">>>> \o grant.calls
    IN
    \* the custody transfer moves the full amount, whatever burn_amount is
    IF ~TransferOk(vault_token_account, amount)
    THEN /\ CvctAccount' = [CvctAccount EXCEPT ![cvct_account].balance = new_balance]
         /\ CvctMint' = [CvctMint EXCEPT ![cvct_mint].total_supply = new_supply]
         /\ Vault' = [Vault EXCEPT ![vault].total_locked = new_locked]
         /\ lastOp' = Op("burn_and_withdraw", FALSE, "TokenInsufficientFunds", <<>>,
                         cvct_account, None, amount)
         /\ UNCHANGED <<TokenAccount, payroll, now>>
    ELSE IF ~grant.ok
    THEN Failed("burn_and_withdraw", grant.err, cvct_account, None, amount)
    ELSE
    /\ TokenAccount' = transfer(TokenAccount, vault_token_account,
                                user_token_account, amount)
    /\ CvctAccount' = [CvctAccount EXCEPT ![cvct_account].balance = new_balance]
    /\ CvctMint' = [CvctMint EXCEPT ![cvct_mint].total_supply = new_supply]
    /\ Vault' = [Vault EXCEPT ![vault].total_locked = new_locked]
    /\ lastOp' = Op("burn_and_withdraw", TRUE, "", calls, cvct_account, None, amount)
    /\ UNCHANGED <<payroll, now>>

burn_and_withdraw(cvct_mint, vault, cvct_account, user, user_token_account, vault_token_account, amount, remaining_accounts) ==
    LET cerr == BurnAndWithdrawAccounts(cvct_mint, vault, cvct_account, user,
                                        user_token_account, vault_token_account)
    IN
    IF cerr # "" THEN Rejected("burn_and_withdraw", cerr)
    ELSE
    LET new == burn_and_withdraw_updates(CvctAccount[cvct_account].balance,
                                         CvctMint[cvct_mint].total_supply,
                                         Vault[vault].total_locked, amount)
        new_balance == new.new_balance
        new_supply  == new.new_supply
        new_locked  == new.new_locked
        grant == IF Len(remaining_accounts) >= 2
                 THEN call_allow_from_remaining(remaining_accounts, new_balance,
                                                CvctAccount[cvct_account].owner, 0)
                 ELSE NoGrant
        calls == new.calls \o <<<<"transfer">>>> \o grant.calls
    IN
    \* the custody transfer moves the full amount, whatever burn_amount is
    IF ~TransferOk(vault_token_account, amount)
    THEN Failed("burn_and_withdraw", "TokenInsufficientFunds", cvct_account, None, amount)
    ELSE IF ~grant.ok
    THEN Failed("burn_and_withdraw", grant.err, cvct_account, None, amount)
    ELSE
    /\ TokenAccount' = transfer(TokenAccount, vault_token_account,
                                user_token_account, amount)
    /\ CvctAccount' = [CvctAccount EXCEPT ![cvct_account].balance = new_balance]
    /\ CvctMint' = [CvctMint EXCEPT ![cvct_mint].total_supply = new_supply]
    /\ Vault' = [Vault EXCEPT ![vault].total_locked = new_locked]
    /\ lastOp' = Op("burn_and_withdraw", TRUE, "", calls, cvct_account, None, amount)
    /\ UNCHANGED <<payroll, now>>

(***************************************************************************)
(* transfer_cvct                                                           *)
(***************************************************************************)
\* the constraints without the one on the destination's mint
TransferCvctAccounts_source_only(cvct_mint, from_cvct_account, to_cvct_account, from) ==
    IF CvctAccount[from_cvct_account].cvct_mint # cvct_mint THEN "ConstraintRaw"
    ELSE IF CvctAccount[from_cvct_account].owner # from THEN "Unauthorized"
    ELSE ""

TransferCvctAccounts(cvct_mint, from_cvct_account, to_cvct_account, from) ==
    IF CvctAccount[from_cvct_account].cvct_mint # cvct_mint THEN "ConstraintRaw"
    ELSE IF CvctAccount[from_cvct_account].owner # from THEN "Unauthorized"
    ELSE IF CvctAccount[to_cvct_account].cvct_mint # cvct_mint THEN "ConstraintRaw"
    ELSE ""

\* a variant that credits the requested amount instead of the selected one
transfer_cvct_updates_requested(from_balance, to_balance, ciphertext, input_type) ==
    LET amount == new_euint128(ciphertext, input_type)
        has_sufficient == e_ge(from_balance, amount)
        zero_value == as_euint128(0)
        transfer_amount == e_select(has_sufficient, amount, zero_value)
    IN
    [new_source_balance |-> e_sub(from_balance, transfer_amount),
     new_dest_balance   |-> e_add(to_balance, amount),
     calls |-> <<<<"new_euint128">>, <<"e_ge">>, <<"as_euint128">>, <<"e_select">>,
                 <<"e_sub">>, <<"e_add">>>>]

\* steps 1 to 5 of the handler: the transfer amount is selected obliviously,
\* debited from the source and credited to the destination
transfer_cvct_updates(from_balance, to_balance, ciphertext, input_type) ==
    LET amount == new_euint128(ciphertext, input_type)
        has_sufficient == e_ge(from_balance, amount)
        zero_value == as_euint128(0)
        transfer_amount == e_select(has_sufficient, amount, zero_value)
    IN
    [new_source_balance |-> e_sub(from_balance, transfer_amount),
     new_dest_balance   |-> e_add(to_balance, transfer_amount),
     calls |-> <<<<"new_euint128">>, <<"e_ge">>, <<"as_euint128">>, <<"e_select">>,
                 <<"e_sub">>, <<"e_add">>>>]

\* the handler after the self-transfer test: the two account arguments are
\* two copies of the records, written back source first, destination last
TransferCvctBody(from_cvct_account, to_cvct_account, ciphertext, input_type, remaining_accounts) ==
    LET new == transfer_cvct_updates(CvctAccount[from_cvct_account].balance,
                                     CvctAccount[to_cvct_account].balance,
                                     ciphertext, input_type)
        new_source_balance == new.new_source_balance
        new_dest_balance == new.new_dest_balance
        grant_source == IF Len(remaining_accounts) >= 2
                        THEN call_allow_from_remaining(remaining_accounts,
                                 new_source_balance,
                                 CvctAccount[from_cvct_account].owner, 0)
                        ELSE NoGrant
        grant_dest == IF Len(remaining_accounts) >= 4
                      THEN call_allow_from_remaining(remaining_accounts,
                               new_dest_balance,
                               CvctAccount[to_cvct_account].owner, 2)
                      ELSE NoGrant
        calls == new.calls \o grant_source.calls \o grant_dest.calls
    IN
    IF ~grant_source.ok
    THEN Failed("transfer_cvct", grant_source.err, from_cvct_account,
                to_cvct_account, ciphertext[2])
    ELSE IF ~grant_dest.ok
    THEN Failed("transfer_cvct", grant_dest.err, from_cvct_account,
                to_cvct_account, ciphertext[2])
    ELSE
    /\ CvctAccount' = [[CvctAccount EXCEPT ![from_cvct_account].balance = new_source_balance]
                                    EXCEPT ![to_cvct_account].balance = new_dest_balance]
    /\ lastOp' = Op("transfer_cvct", TRUE, "", calls, from_cvct_account,
                    to_cvct_account, ciphertext[2])
    /\ UNCHANGED <<CvctMint, Vault, TokenAccount, payroll, now>>

\* a variant without the early return for self-transfer
transfer_cvct_no_early_return(cvct_mint, from_cvct_account, to_cvct_account, from, ciphertext, input_type, remaining_accounts) ==
    LET cerr == TransferCvctAccounts(cvct_mint, from_cvct_account, to_cvct_account, from)
    IN
    IF cerr # "" THEN Rejected("transfer_cvct", cerr)
    ELSE TransferCvctBody(from_cvct_account, to_cvct_account, ciphertext,
                          input_type, remaining_accounts)

transfer_cvct(cvct_mint, from_cvct_account, to_cvct_account, from, ciphertext, input_type, remaining_accounts) ==
    LET cerr == TransferCvctAccounts(cvct_mint, from_cvct_account, to_cvct_account, from)
    IN
    IF cerr # "" THEN Rejected("transfer_cvct", cerr)
    ELSE IF from_cvct_account = to_cvct_account
    THEN \* early return for self-transfer
         /\ lastOp' = Op("transfer_cvct", TRUE, "", <<>>, from_cvct_account,
                         to_cvct_account, ciphertext[2])
         /\ UNCHANGED <<ledger, payroll, now>>
    ELSE TransferCvctBody(from_cvct_account, to_cvct_account, ciphertext,
                          input_type, remaining_accounts)

(***************************************************************************)
(* Payroll instructions.                                                   *)
(***************************************************************************)
init_org(authority, cvct_mint, treasury_vault) ==
    LET org == OrgPda(authority) IN
    IF org \in DOMAIN Organization
    THEN Rejected("init_org", "AccountInUse")
    ELSE
    /\ Organization' = Organization @@ (org :>
            [authority |-> authority, cvct_mint |-> cvct_mint,
             cvct_treasury_vault |-> treasury_vault])
    /\ lastOp' = Op("init_org", TRUE, "", <<>>, treasury_vault, None, 0)
    /\ UNCHANGED <<ledger, Payroll, PayrollMember, now>>

init_org_treasury(org, cvct_mint, admin) ==
    LET org_treasury == OrgTreasuryPda(org) IN
    IF Organization[org].authority # admin
    THEN Rejected("init_org_treasury", "Unauthorized")
    ELSE IF org_treasury \in DOMAIN CvctAccount
    THEN Rejected("init_org_treasury", "AccountInUse")
    ELSE IF cvct_mint # Organization[org].cvct_mint
    THEN Rejected("init_org_treasury", "InvalidVault")
    ELSE
    LET zero_balance == as_euint128(0) IN
    /\ CvctAccount' = CvctAccount @@ (org_treasury :>
            [owner |-> org, cvct_mint |-> cvct_mint, balance |-> zero_balance])
    /\ lastOp' = Op("init_org_treasury", TRUE, "", <<<<"as_euint128">>>>,
                    org_treasury, None, 0)
    /\ UNCHANGED <<CvctMint, Vault, TokenAccount, payroll, now>>

create_payroll(org, admin, interval) ==
    LET p == PayrollPda(org, admin) IN
    IF Organization[org].authority # admin
    THEN Rejected("create_payroll", "Unauthorized")
    ELSE IF p \in DOMAIN Payroll
    THEN Rejected("create_payroll", "AccountInUse")
    ELSE
    /\ Payroll' = Payroll @@ (p :>
            [org |-> org, interval |-> interval, last_run |-> 0, active |-> TRUE])
    /\ lastOp' = Op("create_payroll", TRUE, "", <<>>, None, None, 0)
    /\ UNCHANGED <<ledger, Organization, PayrollMember, now>>

add_payroll_member(org, p, recipient, recipient_cvct_account, admin, rate) ==
    LET payroll_member_state == PayrollMemberPda(p, recipient) IN
    IF Organization[org].authority # admin
    THEN Rejected("add_payroll_member", "Unauthorized")
    ELSE IF Payroll[p].org # org
    THEN Rejected("add_payroll_member", "Unauthorized")
    ELSE IF payroll_member_state \in DOMAIN PayrollMember
    THEN Rejected("add_payroll_member", "AccountInUse")
    ELSE IF CvctAccount[recipient_cvct_account].owner # recipient
    THEN Rejected("add_payroll_member", "Unauthorized")
    ELSE IF CvctAccount[recipient_cvct_account].cvct_mint # Organization[org].cvct_mint
    THEN Rejected("add_payroll_member", "InvalidVault")
    ELSE
    /\ PayrollMember' = PayrollMember @@ (payroll_member_state :>
            [payroll |-> p, cvct_wallet |-> recipient_cvct_account,
             rate |-> rate, last_paid |-> 0, active |-> TRUE])
    /\ lastOp' = Op("add_payroll_member", TRUE, "", <<>>,
                    recipient_cvct_account, None, rate)
    /\ UNCHANGED <<ledger, Organization, Payroll, now>>

\* Rust's integer division truncates toward zero
\* member.rate * (periods_owed as u64), the outcomes of the `*` of two u64: a
\* product that does not fit aborts the instruction in a build with overflow
\* checks and wraps in a build without
Overflow == -1
u64_mul(a, b) == IF a * b < U64 THEN {a * b} ELSE {Overflow, (a * b) % U64}

\* a variant that divides the magnitudes and drops the sign
RustDiv_unsigned(a, b) ==
    (IF a >= 0 THEN a ELSE -a) \div (IF b > 0 THEN b ELSE -b)

RustDiv(a, b) ==
    IF (a >= 0) = (b > 0) THEN (IF a >= 0 THEN a ELSE -a) \div (IF b > 0 THEN b ELSE -b)
    ELSE -((IF a >= 0 THEN a ELSE -a) \div (IF b > 0 THEN b ELSE -b))

RunPayrollForMemberAccounts(org, p, payroll_member_state, org_treasury, member_cvct_account) ==
    IF p \notin DOMAIN Payroll THEN "AccountNotInitialized"
    ELSE IF Payroll[p].org # org THEN "Unauthorized"
    ELSE IF PayrollMember[payroll_member_state].payroll # p THEN "Unauthorized"
    ELSE IF org_treasury # Organization[org].cvct_treasury_vault THEN "InvalidVault"
    ELSE IF member_cvct_account # PayrollMember[payroll_member_state].cvct_wallet
         THEN "Unauthorized"
    ELSE ""

\* every payment counted as a first payment
periods_owed_first_payment(last_paid, interval, clock) ==
    1

\* step 4 of the handler
periods_owed(last_paid, interval, clock) ==
    LET time_elapsed == clock - last_paid IN
    IF last_paid = 0 THEN 1 ELSE RustDiv(time_elapsed, interval)

\* the gate opened by the member's flag alone
active_checks_member_only(p, payroll_member_state) ==
    IF ~PayrollMember[payroll_member_state].active THEN "MemberNotActive"
    ELSE ""

\* steps 1 and 2 of the handler: the payroll's flag, then the member's
active_checks(p, payroll_member_state) ==
    IF ~Payroll[p].active THEN "PayrollNotActive"
    ELSE IF ~PayrollMember[payroll_member_state].active THEN "MemberNotActive"
    ELSE ""

\* the payment without the comparison of the treasury balance
run_payroll_for_member_unchecked_funds(org, p, payroll_member_state, org_treasury, member_cvct_account) ==
    LET cerr == RunPayrollForMemberAccounts(org, p, payroll_member_state,
                                            org_treasury, member_cvct_account)
        member == PayrollMember[payroll_member_state]
    IN
    IF cerr # "" THEN Rejected("run_payroll_for_member", cerr)
    ELSE IF active_checks(p, payroll_member_state) # ""
    THEN Failed("run_payroll_for_member", active_checks(p, payroll_member_state),
                org_treasury, member_cvct_account, 0)
    ELSE IF member.last_paid # 0 /\ Payroll[p].interval = 0
    THEN Failed("run_payroll_for_member", "DivideByZero", org_treasury,
                member_cvct_account, 0)
    ELSE
    LET owed == periods_owed(member.last_paid, Payroll[p].interval, now) IN
    IF ~(owed > 0)
    THEN Failed("run_payroll_for_member", "PayrollNotDue", org_treasury,
                member_cvct_account, 0)
    ELSE
    \E amount_owed \in u64_mul(member.rate, owed) :
    IF amount_owed = Overflow
    THEN Failed("run_payroll_for_member", "ArithmeticOverflow", org_treasury,
                member_cvct_account, 0)
    ELSE
    /\ CvctAccount' =
          [[CvctAccount EXCEPT ![org_treasury].balance =
                   [val |-> decrypted(CvctAccount[org_treasury].balance) - amount_owed]]
                        EXCEPT ![member_cvct_account].balance =
                   [val |-> decrypted(CvctAccount[member_cvct_account].balance) + amount_owed]]
    /\ PayrollMember' = [PayrollMember EXCEPT ![payroll_member_state].last_paid = now]
    /\ lastOp' = Op("run_payroll_for_member", TRUE, "", <<>>, org_treasury,
                    member_cvct_account, amount_owed)
    /\ UNCHANGED <<CvctMint, Vault, TokenAccount, Organization, Payroll, now>>

\* Steps 1 to 7 of the handler.  It compares and updates the balance fields as plain integers:
\* balance >= amount_owed, balance -= amount_owed, balance += amount_owed.
\* The two account arguments are two copies of the records, written back
\* treasury first, member account last.
run_payroll_for_member(org, p, payroll_member_state, org_treasury, member_cvct_account) ==
    LET cerr == RunPayrollForMemberAccounts(org, p, payroll_member_state,
                                            org_treasury, member_cvct_account)
        member == PayrollMember[payroll_member_state]
    IN
    IF cerr # "" THEN Rejected("run_payroll_for_member", cerr)
    ELSE IF active_checks(p, payroll_member_state) # ""
    THEN Failed("run_payroll_for_member", active_checks(p, payroll_member_state),
                org_treasury, member_cvct_account, 0)
    ELSE IF member.last_paid # 0 /\ Payroll[p].interval = 0
    THEN Failed("run_payroll_for_member", "DivideByZero", org_treasury,
                member_cvct_account, 0)
    ELSE
    LET owed == periods_owed(member.last_paid, Payroll[p].interval, now) IN
    IF ~(owed > 0)
    THEN Failed("run_payroll_for_member", "PayrollNotDue", org_treasury,
                member_cvct_account, 0)
    ELSE
    \E amount_owed \in u64_mul(member.rate, owed) :
    IF amount_owed = Overflow
    THEN Failed("run_payroll_for_member", "ArithmeticOverflow", org_treasury,
                member_cvct_account, 0)
    ELSE IF ~(decrypted(CvctAccount[org_treasury].balance) >= amount_owed)
    THEN Failed("run_payroll_for_member", "InsufficientFunds", org_treasury,
                member_cvct_account, amount_owed)
    ELSE
    /\ CvctAccount' =
          [[CvctAccount EXCEPT ![org_treasury].balance =
                   [val |-> decrypted(CvctAccount[org_treasury].balance) - amount_owed]]
                        EXCEPT ![member_cvct_account].balance =
                   [val |-> decrypted(CvctAccount[member_cvct_account].balance) + amount_owed]]
    /\ PayrollMember' = [PayrollMember EXCEPT ![payroll_member_state].last_paid = now]
    /\ lastOp' = Op("run_payroll_for_member", TRUE, "", <<>>, org_treasury,
                    member_cvct_account, amount_owed)
    /\ UNCHANGED <<CvctMint, Vault, TokenAccount, Organization, Payroll, now>>

UpdatePayrollMemberAccounts(org, p, payroll_member_state, admin) ==
    IF p \notin DOMAIN Payroll THEN "AccountNotInitialized"
    ELSE IF Organization[org].authority # admin THEN "Unauthorized"
    ELSE IF Payroll[p].org # org THEN "Unauthorized"
    ELSE IF PayrollMember[payroll_member_state].payroll # p THEN "Unauthorized"
    ELSE ""

\* a variant that starts the member's accrual anew
update_payroll_member_new_accrual(org, p, payroll_member_state, admin, new_rate, active) ==
    LET cerr == UpdatePayrollMemberAccounts(org, p, payroll_member_state, admin) IN
    IF cerr # "" THEN Rejected("update_payroll_member", cerr)
    ELSE
    /\ PayrollMember' = [PayrollMember EXCEPT ![payroll_member_state].rate = new_rate,
                                              ![payroll_member_state].active = active,
                                              ![payroll_member_state].last_paid = 0]
    /\ lastOp' = Op("update_payroll_member", TRUE, "", <<>>, payroll_member_state, None,
                    new_rate)
    /\ UNCHANGED <<ledger, Organization, Payroll, now>>

update_payroll_member(org, p, payroll_member_state, admin, new_rate, active) ==
    LET cerr == UpdatePayrollMemberAccounts(org, p, payroll_member_state, admin) IN
    IF cerr # "" THEN Rejected("update_payroll_member", cerr)
    ELSE
    /\ PayrollMember' = [PayrollMember EXCEPT ![payroll_member_state].rate = new_rate,
                                              ![payroll_member_state].active = active]
    /\ lastOp' = Op("update_payroll_member", TRUE, "", <<>>, payroll_member_state, None,
                    new_rate)
    /\ UNCHANGED <<ledger, Organization, Payroll, now>>

\* PausePayroll, ResumePayroll and ClosePayroll carry the same constraints
PayrollAdminAccounts_any_signer(org, p, admin) ==
    IF p \notin DOMAIN Payroll THEN "AccountNotInitialized"
    ELSE IF Payroll[p].org # org THEN "Unauthorized"
    ELSE ""

PayrollAdminAccounts(org, p, admin) ==
    IF p \notin DOMAIN Payroll THEN "AccountNotInitialized"
    ELSE IF Organization[org].authority # admin THEN "Unauthorized"
    ELSE IF Payroll[p].org # org THEN "Unauthorized"
    ELSE ""

pause_payroll(org, p, admin) ==
    LET cerr == PayrollAdminAccounts(org, p, admin) IN
    IF cerr # "" THEN Rejected("pause_payroll", cerr)
    ELSE
    /\ Payroll' = [Payroll EXCEPT ![p].active = FALSE]
    /\ lastOp' = Op("pause_payroll", TRUE, "", <<>>, p, None, 0)
    /\ UNCHANGED <<ledger, Organization, PayrollMember, now>>

resume_payroll(org, p, admin) ==
    LET cerr == PayrollAdminAccounts(org, p, admin) IN
    IF cerr # "" THEN Rejected("resume_payroll", cerr)
    ELSE
    /\ Payroll' = [Payroll EXCEPT ![p].active = TRUE]
    /\ lastOp' = Op("resume_payroll", TRUE, "", <<>>, p, None, 0)
    /\ UNCHANGED <<ledger, Organization, PayrollMember, now>>

\* the payroll record closed whatever its flag
close_payroll_unconditional(org, p, admin) ==
    LET cerr == PayrollAdminAccounts(org, p, admin) IN
    IF cerr # "" THEN Rejected("close_payroll", cerr)
    ELSE
    /\ Payroll' = [q \in DOMAIN Payroll \ {p} |-> Payroll[q]]
    /\ lastOp' = Op("close_payroll", TRUE, "", <<>>, p, None, 0)
    /\ UNCHANGED <<ledger, Organization, PayrollMember, now>>

\* `close = admin` removes the payroll record when the handler returns Ok;
\* the member records that name it stay
close_payroll(org, p, admin) ==
    LET cerr == PayrollAdminAccounts(org, p, admin) IN
    IF cerr # "" THEN Rejected("close_payroll", cerr)
    ELSE IF Payroll[p].active
    THEN Failed("close_payroll", "MustPauseFirst", p, None, 0)
    ELSE
    /\ Payroll' = [q \in DOMAIN Payroll \ {p} |-> Payroll[q]]
    /\ lastOp' = Op("close_payroll", TRUE, "", <<>>, p, None, 0)
    /\ UNCHANGED <<ledger, Organization, PayrollMember, now>>

\* the cluster clock advances
TickUntil(limit) ==
    /\ now < limit
    /\ now' = now + 1
    /\ lastOp' = Op("tick", TRUE, "", <<>>, None, None, 0)
    /\ UNCHANGED <<ledger, payroll>>

Tick == TickUntil(MaxTime)

(***************************************************************************)
(*                 The asynchronous program (programs/cvct)                *)
(*                                                                         *)
(* A ciphertext is the plaintext plus a key stream derived from the        *)
(* encryption key and the nonce, in the cipher's field.  Decrypting with   *)
(* another key or nonce than the one used to encrypt yields another field  *)
(* element.  An unwritten field is [[0u8; 32]; 1] with nonce 0.            *)
(***************************************************************************)
Keystream(key, nonce) == (7 * key + 5 * nonce * nonce + 3 * nonce + 1) % FieldMod

\* Shared::from_arcis and Enc<Shared, u128>::to_arcis
from_arcis(shared, value) ==
    [ciphertexts |-> (value + Keystream(shared.key, shared.nonce)) % FieldMod,
     nonce |-> shared.nonce]
to_arcis(enc) == (enc.ciphertexts - Keystream(enc.key, enc.nonce)) % FieldMod

Shared(key, nonce) == [key |-> key, nonce |-> nonce]
EncArg(key, nonce, ciphertexts) == [key |-> key, nonce |-> nonce, ciphertexts |-> ciphertexts]

\* what the holder of a record's key reads from a ciphertext field
arc_decrypted(key, nonce, ciphertexts) == to_arcis(EncArg(key, nonce, ciphertexts))

(***************************************************************************)
(* The circuits of encrypted-ixs.                                          *)
(***************************************************************************)
circuit_init_mint_state(authority, vault_shared) ==
    <<from_arcis(authority, 0), from_arcis(vault_shared, 0)>>

circuit_init_account_state(owner) == <<from_arcis(owner, 0)>>

circuit_deposit_and_mint(balance, amount, owner_out, total_supply, mint_out, total_locked, vault_out) ==
    LET new_balance      == (to_arcis(balance) + amount) % FieldMod
        new_total_supply == (to_arcis(total_supply) + amount) % FieldMod
        new_total_locked == (to_arcis(total_locked) + amount) % FieldMod
    IN  <<from_arcis(owner_out, new_balance),
          from_arcis(mint_out, new_total_supply),
          from_arcis(vault_out, new_total_locked)>>

\* a variant that subtracts the amount from the totals whatever the comparison
circuit_burn_and_withdraw_totals_always(balance, amount, owner_out, total_supply, mint_out, total_locked, vault_out) ==
    LET bal == to_arcis(balance)
        ok  == bal >= amount
        new_balance == IF ok THEN (bal - amount) % FieldMod ELSE bal
        supply == to_arcis(total_supply)
        new_supply == (supply - amount) % FieldMod
        locked == to_arcis(total_locked)
        new_locked == (locked - amount) % FieldMod
    IN  <<from_arcis(owner_out, new_balance),
          from_arcis(mint_out, new_supply),
          from_arcis(vault_out, new_locked),
          ok, amount>>

circuit_burn_and_withdraw(balance, amount, owner_out, total_supply, mint_out, total_locked, vault_out) ==
    LET bal == to_arcis(balance)
        ok  == bal >= amount
        new_balance == IF ok THEN (bal - amount) % FieldMod ELSE bal
        supply == to_arcis(total_supply)
        new_supply == IF ok THEN (supply - amount) % FieldMod ELSE supply
        locked == to_arcis(total_locked)
        new_locked == IF ok THEN (locked - amount) % FieldMod ELSE locked
    IN  <<from_arcis(owner_out, new_balance),
          from_arcis(mint_out, new_supply),
          from_arcis(vault_out, new_locked),
          ok, amount>>

(***************************************************************************)
(* Addresses and record layout of the asynchronous program.                *)
(***************************************************************************)
ArcVaultPda(cvct_mint) == <<"vault", cvct_mint>>
ENCRYPTED_U128_CIPHERTEXTS == 1
ZeroCiphertext == 0                       \* [[0u8; 32]; ENCRYPTED_U128_CIPHERTEXTS]

\* the record of the last step: for a callback, job and signed are the
\* delivered output's
ArcOp(name, ok, err, job, signed) ==
    [op |-> name, ok |-> ok, err |-> err, job |-> job, signed |-> signed]

ArcRejected(name, err, job) ==
    /\ arcOp' = ArcOp(name, FALSE, err, 0, FALSE)
    /\ UNCHANGED <<ArcCvctMint, ArcVault, ArcCvctAccount, ArcTokenAccount, Computation>>

\* queue_computation: the computation account of the offset is created
Job(kind, args, callback_accounts) ==
    [kind |-> kind, args |-> args, callback_accounts |-> callback_accounts,
     status |-> "Queued", output |-> <<>>, read |-> <<>>]

(***************************************************************************)
(* initialize_cvct_mint (asynchronous)                                     *)
(***************************************************************************)
arc_initialize_cvct_mint(authority, computation_offset, authority_enc_pubkey, authority_nonce, vault_nonce) ==
    LET cvct_mint_key == MintPda(authority)
        vault_key == ArcVaultPda(cvct_mint_key)
        vault_token_account_key == AtaPda(BackingMint, vault_key)
        args == <<Shared(authority_enc_pubkey, authority_nonce),
                  Shared(authority_enc_pubkey, vault_nonce)>>
    IN
    IF cvct_mint_key \in DOMAIN ArcCvctMint \/ computation_offset \in DOMAIN Computation
    THEN ArcRejected("initialize_cvct_mint", "AccountInUse", computation_offset)
    ELSE
    /\ ArcCvctMint' = ArcCvctMint @@ (cvct_mint_key :>
            [authority |-> authority, backing_mint |-> BackingMint,
             authority_enc_pubkey |-> authority_enc_pubkey,
             total_supply |-> ZeroCiphertext, total_supply_nonce |-> 0])
    /\ ArcVault' = ArcVault @@ (vault_key :>
            [cvct_mint |-> cvct_mint_key, backing_mint |-> BackingMint,
             backing_token_account |-> vault_token_account_key,
             total_locked |-> ZeroCiphertext, total_locked_nonce |-> 0])
    /\ ArcTokenAccount' = ArcTokenAccount @@ (vault_token_account_key :>
            [mint |-> BackingMint, owner |-> vault_key, amount |-> 0])
    /\ Computation' = Computation @@ (computation_offset :>
            Job("init_mint_state", args, <<cvct_mint_key, vault_key>>))
    /\ arcOp' = ArcOp("initialize_cvct_mint", TRUE, "", computation_offset, FALSE)
    /\ UNCHANGED ArcCvctAccount

(***************************************************************************)
(* initialize_cvct_account (asynchronous)                                  *)
(***************************************************************************)
arc_initialize_cvct_account(cvct_mint, owner, computation_offset, owner_enc_pubkey, owner_nonce) ==
    LET cvct_account_key == AccountPda(cvct_mint, owner)
        args == <<Shared(owner_enc_pubkey, owner_nonce)>>
    IN
    IF cvct_account_key \in DOMAIN ArcCvctAccount
       \/ computation_offset \in DOMAIN Computation
    THEN ArcRejected("initialize_cvct_account", "AccountInUse", computation_offset)
    ELSE
    /\ ArcCvctAccount' = ArcCvctAccount @@ (cvct_account_key :>
            [owner |-> owner, cvct_mint |-> cvct_mint,
             owner_enc_pubkey |-> owner_enc_pubkey,
             balance |-> ZeroCiphertext, balance_nonce |-> 0])
    /\ Computation' = Computation @@ (computation_offset :>
            Job("init_account_state", args, <<cvct_account_key>>))
    /\ arcOp' = ArcOp("initialize_cvct_account", TRUE, "", computation_offset, FALSE)
    /\ UNCHANGED <<ArcCvctMint, ArcVault, ArcTokenAccount>>

(***************************************************************************)
(* deposit_and_mint (asynchronous): custody transfer, then the job is      *)
(* queued.  The three ciphertexts are passed by reference: account key,    *)
(* byte offset and length.                                                 *)
(***************************************************************************)
\* a reference counted from the end of the 8 byte discriminator
AccountRef_after_discriminator(key, offset, length) ==
    [account |-> key, offset |-> offset - 8, length |-> length]

AccountRef(key, offset, length) == [account |-> key, offset |-> offset, length |-> length]

ArcDepositAndMintAccounts(cvct_mint, vault, cvct_account, user, user_token_account, vault_token_account) ==
    IF ArcCvctMint[cvct_mint].authority # user THEN "Unauthorized"
    ELSE IF vault # ArcVaultPda(cvct_mint) THEN "ConstraintSeeds"
    ELSE IF ArcVault[vault].cvct_mint # cvct_mint THEN "InvalidVault"
    ELSE IF cvct_account # AccountPda(cvct_mint, user) THEN "ConstraintSeeds"
    ELSE IF ArcCvctAccount[cvct_account].cvct_mint # cvct_mint THEN "ConstraintRaw"
    ELSE IF ArcCvctAccount[cvct_account].owner # user THEN "Unauthorized"
    ELSE IF ArcTokenAccount[user_token_account].mint # ArcCvctMint[cvct_mint].backing_mint
         THEN "ConstraintRaw"
    ELSE IF ArcTokenAccount[user_token_account].owner # user THEN "ConstraintRaw"
    ELSE IF vault_token_account # ArcVault[vault].backing_token_account THEN "ConstraintRaw"
    ELSE ""

\* a variant that stores the nonce of the new balance when the job is queued
arc_deposit_and_mint_optimistic(cvct_mint, vault, cvct_account, user, user_token_account, vault_token_account, computation_offset, amount, owner_enc_pubkey, owner_balance_nonce, owner_new_balance_nonce, mint_enc_pubkey, mint_total_supply_nonce, mint_new_total_supply_nonce, vault_enc_pubkey, vault_total_locked_nonce, vault_new_total_locked_nonce) ==
    LET cerr == ArcDepositAndMintAccounts(cvct_mint, vault, cvct_account, user,
                                          user_token_account, vault_token_account)
        args == <<Shared(owner_enc_pubkey, owner_balance_nonce),
                  AccountRef(cvct_account, 8 + 32 + 32 + 32, 32 * ENCRYPTED_U128_CIPHERTEXTS),
                  amount,
                  Shared(owner_enc_pubkey, owner_new_balance_nonce),
                  Shared(mint_enc_pubkey, mint_total_supply_nonce),
                  AccountRef(cvct_mint, 8 + 32 + 32 + 32, 32 * ENCRYPTED_U128_CIPHERTEXTS),
                  Shared(mint_enc_pubkey, mint_new_total_supply_nonce),
                  Shared(vault_enc_pubkey, vault_total_locked_nonce),
                  AccountRef(vault, 8 + 32 + 32 + 32, 32 * ENCRYPTED_U128_CIPHERTEXTS),
                  Shared(vault_enc_pubkey, vault_new_total_locked_nonce)>>
    IN
    IF cerr # "" THEN ArcRejected("deposit_and_mint", cerr, computation_offset)
    ELSE IF ~(amount > 0)
    THEN ArcRejected("deposit_and_mint", "ZeroAmount", computation_offset)
    ELSE IF ~(ArcTokenAccount[user_token_account].amount >= amount)
    THEN ArcRejected("deposit_and_mint", "TokenInsufficientFunds", computation_offset)
    ELSE IF computation_offset \in DOMAIN Computation
    THEN ArcRejected("deposit_and_mint", "AccountInUse", computation_offset)
    ELSE
    /\ ArcTokenAccount' = transfer(ArcTokenAccount, user_token_account,
                                   vault_token_account, amount)
    /\ Computation' = Computation @@ (computation_offset :>
            Job("deposit_and_mint", args, <<cvct_account, cvct_mint, vault>>))
    /\ arcOp' = ArcOp("deposit_and_mint", TRUE, "", computation_offset, FALSE)
    /\ ArcCvctAccount' = [ArcCvctAccount EXCEPT
            ![cvct_account].balance_nonce = owner_new_balance_nonce]
    /\ UNCHANGED <<ArcCvctMint, ArcVault>>

arc_deposit_and_mint(cvct_mint, vault, cvct_account, user, user_token_account, vault_token_account, computation_offset, amount, owner_enc_pubkey, owner_balance_nonce, owner_new_balance_nonce, mint_enc_pubkey, mint_total_supply_nonce, mint_new_total_supply_nonce, vault_enc_pubkey, vault_total_locked_nonce, vault_new_total_locked_nonce) ==
    LET cerr == ArcDepositAndMintAccounts(cvct_mint, vault, cvct_account, user,
                                          user_token_account, vault_token_account)
        args == <<Shared(owner_enc_pubkey, owner_balance_nonce),
                  AccountRef(cvct_account, 8 + 32 + 32 + 32, 32 * ENCRYPTED_U128_CIPHERTEXTS),
                  amount,
                  Shared(owner_enc_pubkey, owner_new_balance_nonce),
                  Shared(mint_enc_pubkey, mint_total_supply_nonce),
                  AccountRef(cvct_mint, 8 + 32 + 32 + 32, 32 * ENCRYPTED_U128_CIPHERTEXTS),
                  Shared(mint_enc_pubkey, mint_new_total_supply_nonce),
                  Shared(vault_enc_pubkey, vault_total_locked_nonce),
                  AccountRef(vault, 8 + 32 + 32 + 32, 32 * ENCRYPTED_U128_CIPHERTEXTS),
                  Shared(vault_enc_pubkey, vault_new_total_locked_nonce)>>
    IN
    IF cerr # "" THEN ArcRejected("deposit_and_mint", cerr, computation_offset)
    ELSE IF ~(amount > 0)
    THEN ArcRejected("deposit_and_mint", "ZeroAmount", computation_offset)
    ELSE IF ~(ArcTokenAccount[user_token_account].amount >= amount)
    THEN ArcRejected("deposit_and_mint", "TokenInsufficientFunds", computation_offset)
    ELSE IF computation_offset \in DOMAIN Computation
    THEN ArcRejected("deposit_and_mint", "AccountInUse", computation_offset)
    ELSE
    /\ ArcTokenAccount' = transfer(ArcTokenAccount, user_token_account,
                                   vault_token_account, amount)
    /\ Computation' = Computation @@ (computation_offset :>
            Job("deposit_and_mint", args, <<cvct_account, cvct_mint, vault>>))
    /\ arcOp' = ArcOp("deposit_and_mint", TRUE, "", computation_offset, FALSE)
    /\ UNCHANGED <<ArcCvctMint, ArcVault, ArcCvctAccount>>

(***************************************************************************)
(* The cluster.  It dequeues a job, reads the by-reference arguments from  *)
(* the records as they are at that moment, runs the circuit and signs the  *)
(* output; or it aborts the job.                                           *)
(***************************************************************************)
\* The serialized records: the account discriminator, then the fields of
\* the struct in declaration order, each with its size in bytes.
Field(name, size) == [name |-> name, size |-> size]

CvctMintLayout ==
    <<Field("discriminator", 8), Field("authority", 32), Field("backing_mint", 32),
      Field("authority_enc_pubkey", 32),
      Field("total_supply", 32 * ENCRYPTED_U128_CIPHERTEXTS),
      Field("total_supply_nonce", 16), Field("decimals", 1)>>

VaultLayout ==
    <<Field("discriminator", 8), Field("cvct_mint", 32), Field("backing_mint", 32),
      Field("backing_token_account", 32),
      Field("total_locked", 32 * ENCRYPTED_U128_CIPHERTEXTS),
      Field("total_locked_nonce", 16)>>

CvctAccountLayout ==
    <<Field("discriminator", 8), Field("owner", 32), Field("cvct_mint", 32),
      Field("owner_enc_pubkey", 32),
      Field("balance", 32 * ENCRYPTED_U128_CIPHERTEXTS),
      Field("balance_nonce", 16)>>

\* the byte offset of a field: the sizes of the fields before it
RECURSIVE FieldOffset(_, _)
FieldOffset(layout, name) ==
    IF layout = <<>> THEN 0
    ELSE IF Head(layout).name = name THEN 0
    ELSE Head(layout).size + FieldOffset(Tail(layout), name)

FieldSize(layout, name) ==
    LET i == CHOOSE k \in 1..Len(layout) : layout[k].name = name IN layout[i].size

\* serialized layouts: 8 bytes of discriminator, then the fields in order
CiphertextOffset == 8 + 32 + 32 + 32

\* the 32 bytes the reference points at
ReadRef(ref) ==
    IF ref.offset # CiphertextOffset \/ ref.length # 32 THEN ZeroCiphertext
    ELSE IF ref.account \in DOMAIN ArcCvctAccount THEN ArcCvctAccount[ref.account].balance
    ELSE IF ref.account \in DOMAIN ArcCvctMint THEN ArcCvctMint[ref.account].total_supply
    ELSE ArcVault[ref.account].total_locked

RunCircuit(job) ==
    LET a == job.args IN
    IF job.kind = "init_mint_state" THEN circuit_init_mint_state(a[1], a[2])
    ELSE IF job.kind = "init_account_state" THEN circuit_init_account_state(a[1])
    ELSE IF job.kind = "burn_and_withdraw"
    THEN circuit_burn_and_withdraw(a[1], a[2], a[3], a[4], a[5], a[6], a[7])
    ELSE circuit_deposit_and_mint(
             EncArg(a[1].key, a[1].nonce, ReadRef(a[2])), a[3], a[4],
             EncArg(a[5].key, a[5].nonce, ReadRef(a[6])), a[7],
             EncArg(a[8].key, a[8].nonce, ReadRef(a[9])), a[10])

ReadRefs(job) ==
    IF job.kind = "deposit_and_mint"
    THEN <<ReadRef(job.args[2]), ReadRef(job.args[6]), ReadRef(job.args[9])>>
    ELSE <<>>

ClusterExecute(computation_offset) ==
    /\ Computation[computation_offset].status = "Queued"
    /\ Computation' = [Computation EXCEPT
            ![computation_offset].status = "Completed",
            ![computation_offset].output = RunCircuit(Computation[computation_offset]),
            ![computation_offset].read = ReadRefs(Computation[computation_offset])]
    /\ arcOp' = ArcOp("execute", TRUE, "", computation_offset, FALSE)
    /\ UNCHANGED <<ArcCvctMint, ArcVault, ArcCvctAccount, ArcTokenAccount>>

ClusterAbort(computation_offset) ==
    /\ Computation[computation_offset].status = "Queued"
    /\ Computation' = [Computation EXCEPT ![computation_offset].status = "Aborted"]
    /\ arcOp' = ArcOp("abort", TRUE, "", computation_offset, FALSE)
    /\ UNCHANGED <<ArcCvctMint, ArcVault, ArcCvctAccount, ArcTokenAccount>>

(***************************************************************************)
(* SignedComputationOutputs::verify_output.  The delivered output carries  *)
(* the cluster's signature over the job (signed) or not.  It verifies when *)
(* the signature is valid, the job is still pending with that output, and  *)
(* the job has not been committed before.                                  *)
(***************************************************************************)
SignedOutput(computation_offset, signed) ==
    [job |-> computation_offset, signed |-> signed]

verify_output(output) ==
    /\ output.signed
    /\ output.job \in DOMAIN Computation
    /\ Computation[output.job].status = "Completed"

\* a verified output finalizes its job; a failed callback changes nothing
Delivered(output, verified) ==
    IF verified THEN [Computation EXCEPT ![output.job].status = "Verified"]
    ELSE Computation

(***************************************************************************)
(* The callbacks.  The accounts of a callback are the ones registered      *)
(* with the job (callback_ix).                                             *)
(***************************************************************************)
\* a variant that unwraps the output without looking at the verification
\* result, whenever the job has an output
init_mint_state_callback_unchecked(cvct_mint, vault, output) ==
    IF Computation[output.job].output = <<>>
    THEN /\ arcOp' = ArcOp("init_mint_state_callback", FALSE, "AbortedComputation",
                           output.job, output.signed)
         /\ UNCHANGED <<ArcCvctMint, ArcVault, ArcCvctAccount, ArcTokenAccount, Computation>>
    ELSE
    LET total_supply == Computation[output.job].output[1]
        total_locked == Computation[output.job].output[2]
    IN
    /\ ArcCvctMint' = [ArcCvctMint EXCEPT
            ![cvct_mint].total_supply = total_supply.ciphertexts,
            ![cvct_mint].total_supply_nonce = total_supply.nonce]
    /\ ArcVault' = [ArcVault EXCEPT
            ![vault].total_locked = total_locked.ciphertexts,
            ![vault].total_locked_nonce = total_locked.nonce]
    /\ Computation' = Delivered(output, TRUE)
    /\ arcOp' = ArcOp("init_mint_state_callback", TRUE, "", output.job, output.signed)
    /\ UNCHANGED <<ArcCvctAccount, ArcTokenAccount>>

init_mint_state_callback(cvct_mint, vault, output) ==
    IF ~verify_output(output)
    THEN /\ arcOp' = ArcOp("init_mint_state_callback", FALSE, "AbortedComputation",
                           output.job, output.signed)
         /\ Computation' = Delivered(output, FALSE)
         /\ UNCHANGED <<ArcCvctMint, ArcVault, ArcCvctAccount, ArcTokenAccount>>
    ELSE
    LET total_supply == Computation[output.job].output[1]
        total_locked == Computation[output.job].output[2]
    IN
    /\ ArcCvctMint' = [ArcCvctMint EXCEPT
            ![cvct_mint].total_supply = total_supply.ciphertexts,
            ![cvct_mint].total_supply_nonce = total_supply.nonce]
    /\ ArcVault' = [ArcVault EXCEPT
            ![vault].total_locked = total_locked.ciphertexts,
            ![vault].total_locked_nonce = total_locked.nonce]
    /\ Computation' = Delivered(output, TRUE)
    /\ arcOp' = ArcOp("init_mint_state_callback", TRUE, "", output.job, output.signed)
    /\ UNCHANGED <<ArcCvctAccount, ArcTokenAccount>>

\* a variant that accepts every signed output, committed before or not
init_account_state_callback_replayable(cvct_account, output) ==
    IF ~output.signed \/ Computation[output.job].output = <<>>
    THEN /\ arcOp' = ArcOp("init_account_state_callback", FALSE, "AbortedComputation",
                           output.job, output.signed)
         /\ UNCHANGED <<ArcCvctMint, ArcVault, ArcCvctAccount, ArcTokenAccount, Computation>>
    ELSE
    LET balance == Computation[output.job].output[1] IN
    /\ ArcCvctAccount' = [ArcCvctAccount EXCEPT
            ![cvct_account].balance = balance.ciphertexts,
            ![cvct_account].balance_nonce = balance.nonce]
    /\ Computation' = Delivered(output, TRUE)
    /\ arcOp' = ArcOp("init_account_state_callback", TRUE, "", output.job, output.signed)
    /\ UNCHANGED <<ArcCvctMint, ArcVault, ArcTokenAccount>>

init_account_state_callback(cvct_account, output) ==
    IF ~verify_output(output)
    THEN /\ arcOp' = ArcOp("init_account_state_callback", FALSE, "AbortedComputation",
                           output.job, output.signed)
         /\ Computation' = Delivered(output, FALSE)
         /\ UNCHANGED <<ArcCvctMint, ArcVault, ArcCvctAccount, ArcTokenAccount>>
    ELSE
    LET balance == Computation[output.job].output[1] IN
    /\ ArcCvctAccount' = [ArcCvctAccount EXCEPT
            ![cvct_account].balance = balance.ciphertexts,
            ![cvct_account].balance_nonce = balance.nonce]
    /\ Computation' = Delivered(output, TRUE)
    /\ arcOp' = ArcOp("init_account_state_callback", TRUE, "", output.job, output.signed)
    /\ UNCHANGED <<ArcCvctMint, ArcVault, ArcTokenAccount>>

\* a variant that commits only when the three fields still hold what the
\* computation read (compare-and-swap)
deposit_and_mint_callback_cas(cvct_account, cvct_mint, vault, output) ==
    IF \/ ~verify_output(output)
       \/ Computation[output.job].read # <<ArcCvctAccount[cvct_account].balance,
                                           ArcCvctMint[cvct_mint].total_supply,
                                           ArcVault[vault].total_locked>>
    THEN /\ arcOp' = ArcOp("deposit_and_mint_callback", FALSE, "AbortedComputation",
                           output.job, output.signed)
         /\ Computation' = Delivered(output, FALSE)
         /\ UNCHANGED <<ArcCvctMint, ArcVault, ArcCvctAccount, ArcTokenAccount>>
    ELSE
    LET balance      == Computation[output.job].output[1]
        total_supply == Computation[output.job].output[2]
        total_locked == Computation[output.job].output[3]
    IN
    /\ ArcCvctAccount' = [ArcCvctAccount EXCEPT
            ![cvct_account].balance = balance.ciphertexts,
            ![cvct_account].balance_nonce = balance.nonce]
    /\ ArcCvctMint' = [ArcCvctMint EXCEPT
            ![cvct_mint].total_supply = total_supply.ciphertexts,
            ![cvct_mint].total_supply_nonce = total_supply.nonce]
    /\ ArcVault' = [ArcVault EXCEPT
            ![vault].total_locked = total_locked.ciphertexts,
            ![vault].total_locked_nonce = total_locked.nonce]
    /\ Computation' = Delivered(output, TRUE)
    /\ arcOp' = ArcOp("deposit_and_mint_callback", TRUE, "", output.job, output.signed)
    /\ UNCHANGED ArcTokenAccount

deposit_and_mint_callback(cvct_account, cvct_mint, vault, output) ==
    IF ~verify_output(output)
    THEN /\ arcOp' = ArcOp("deposit_and_mint_callback", FALSE, "AbortedComputation",
                           output.job, output.signed)
         /\ Computation' = Delivered(output, FALSE)
         /\ UNCHANGED <<ArcCvctMint, ArcVault, ArcCvctAccount, ArcTokenAccount>>
    ELSE
    LET balance      == Computation[output.job].output[1]
        total_supply == Computation[output.job].output[2]
        total_locked == Computation[output.job].output[3]
    IN
    /\ ArcCvctAccount' = [ArcCvctAccount EXCEPT
            ![cvct_account].balance = balance.ciphertexts,
            ![cvct_account].balance_nonce = balance.nonce]
    /\ ArcCvctMint' = [ArcCvctMint EXCEPT
            ![cvct_mint].total_supply = total_supply.ciphertexts,
            ![cvct_mint].total_supply_nonce = total_supply.nonce]
    /\ ArcVault' = [ArcVault EXCEPT
            ![vault].total_locked = total_locked.ciphertexts,
            ![vault].total_locked_nonce = total_locked.nonce]
    /\ Computation' = Delivered(output, TRUE)
    /\ arcOp' = ArcOp("deposit_and_mint_callback", TRUE, "", output.job, output.signed)
    /\ UNCHANGED ArcTokenAccount

(***************************************************************************)
(* Initial state: nothing of the program exists; each wallet holds         *)
(* InitTokens of the backing mint in its token account.                    *)
(***************************************************************************)
Empty == [a \in {} |-> None]

Init ==
    /\ CvctMint = Empty
    /\ Vault = Empty
    /\ CvctAccount = Empty
    /\ TokenAccount = [a \in {AtaPda(BackingMint, w) : w \in Wallets} |->
                          [mint |-> BackingMint, owner |-> a[3], amount |-> InitTokens]]
    /\ Organization = Empty
    /\ Payroll = Empty
    /\ PayrollMember = Empty
    /\ now = 1
    /\ lastOp = Op("init", TRUE, "", <<>>, None, None, 0)
    /\ ArcCvctMint = Empty
    /\ ArcVault = Empty
    /\ ArcCvctAccount = Empty
    /\ ArcTokenAccount = [a \in {AtaPda(BackingMint, w) : w \in Wallets} |->
                          [mint |-> BackingMint, owner |-> a[3], amount |-> ArcInitTokens]]
    /\ Computation = Empty
    /\ arcOp = ArcOp("init", TRUE, "", 0, FALSE)

(***************************************************************************)
(* The arguments the instructions are tried with.                          *)
(***************************************************************************)
Amounts == 0..MaxAmount

\* remaining_accounts as a client builds them for the owners a and b
RemainingAccounts(a, b) ==
    { <<>>,
      <<AllowancePda(a), a>>,
      <<AllowancePda(a), a, AllowancePda(b)>>,
      <<AllowancePda(a), a, AllowancePda(b), b>> }

\* the account arguments a client derives for the account a, and the
\* arguments that differ from them in one place
WellFormed(m, v, a, user) ==
    /\ m = CvctAccount[a].cvct_mint
    /\ v = VaultPda(CvctMint[m].authority)
    /\ user = CvctAccount[a].owner

OneOff(m, v, a, user) ==
    \/ WellFormed(m, v, a, user)
    \/ \E u \in Wallets : WellFormed(m, v, a, u)
    \/ \E w \in DOMAIN Vault : WellFormed(m, w, a, user)
    \/ \E n \in DOMAIN CvctMint : v = VaultPda(CvctMint[m].authority)
                                   /\ WellFormed(n, VaultPda(CvctMint[n].authority), a, user)

Authorities == {<<"u1">>}        \* the wallets that create a mint under Spec

Next ==
    \/ \E authority \in Authorities : initialize_cvct_mint(authority) /\ UNCHANGED arc
    \/ \E m \in DOMAIN CvctMint, owner \in Wallets : initialize_cvct_account(m, owner) /\ UNCHANGED arc
    \/ \E m \in DOMAIN CvctMint, v \in DOMAIN Vault, a \in DOMAIN CvctAccount,
          user \in Wallets, amount \in Amounts :
          /\ OneOff(m, v, a, user)
          /\ decrypted(CvctMint[m].total_supply) + amount <= MaxSupply
          /\ \E rem \in RemainingAccounts(user, user) :
                deposit_and_mint(m, v, a, user, AtaPda(BackingMint, user),
                                 AtaPda(BackingMint, v), amount, rem)
          /\ UNCHANGED arc
    \/ \E m \in DOMAIN CvctMint, v \in DOMAIN Vault, a \in DOMAIN CvctAccount,
          user \in Wallets, amount \in Amounts :
          /\ OneOff(m, v, a, user)
          /\ \E rem \in RemainingAccounts(user, user) :
                burn_and_withdraw(m, v, a, user, AtaPda(BackingMint, user),
                                  AtaPda(BackingMint, v), amount, rem)
          /\ UNCHANGED arc
    \/ \E m \in DOMAIN CvctMint, f \in DOMAIN CvctAccount, t \in DOMAIN CvctAccount,
          from \in Wallets, amount \in Amounts :
          /\ OneOff(m, VaultPda(CvctMint[m].authority), f, from)
          /\ \E rem \in RemainingAccounts(from, CvctAccount[t].owner) :
                transfer_cvct(m, f, t, from, ClientCiphertext(amount), 0, rem)
          /\ UNCHANGED arc

Spec == Init /\ [][Next]_vars

(***************************************************************************)
(* The ledger with a mint per wallet: every wallet opens an account of the *)
(* first mint, the other mint is used by its authority alone.  Clients     *)
(* pass, for one account argument or for the mint and its vault together,  *)
(* any existing record, or sign as any wallet.  A call with a replaced     *)
(* argument asks for one token.                                            *)
(***************************************************************************)
\* <<cvct_mint, vault, user, user_token_account, vault_token_account>> as a
\* client derives them for the account a
Derived(a) ==
    LET m == CvctAccount[a].cvct_mint
        v == VaultPda(CvctMint[m].authority)
        user == CvctAccount[a].owner
    IN  <<m, v, user, AtaPda(BackingMint, user), AtaPda(BackingMint, v)>>

\* the derived arguments, or one of them replaced
LinkageArgs(a) ==
    LET m == CvctAccount[a].cvct_mint
        v == VaultPda(CvctMint[m].authority)
        user == CvctAccount[a].owner
        ut == AtaPda(BackingMint, user)
        vt == AtaPda(BackingMint, v)
    IN  {Derived(a)}
        \cup {<<n, v, user, ut, vt>> : n \in DOMAIN CvctMint}
        \cup {<<n, VaultPda(CvctMint[n].authority), user, ut,
                AtaPda(BackingMint, VaultPda(CvctMint[n].authority))>> : n \in DOMAIN CvctMint}
        \cup {<<m, w, user, ut, vt>> : w \in DOMAIN Vault}
        \cup {<<m, v, u, ut, vt>> : u \in Wallets}
        \cup {<<m, v, u, AtaPda(BackingMint, u), vt>> : u \in Wallets}
        \cup {<<m, v, user, t, vt>> : t \in DOMAIN TokenAccount}
        \cup {<<m, v, user, ut, t>> : t \in DOMAIN TokenAccount}

NextLinkage ==
    \/ \E authority \in Wallets :
          /\ MintPda(authority) \notin DOMAIN CvctMint
          /\ initialize_cvct_mint(authority) /\ UNCHANGED arc
    \/ \E m \in DOMAIN CvctMint, owner \in Wallets :
          /\ AccountPda(m, owner) \notin DOMAIN CvctAccount
          /\ CvctMint[m].authority \in Authorities \/ owner = CvctMint[m].authority
          /\ initialize_cvct_account(m, owner) /\ UNCHANGED arc
    \/ \E a \in DOMAIN CvctAccount, amount \in Amounts :
          \E x \in LinkageArgs(a) :
             /\ x = Derived(a) \/ amount = 1
             /\ decrypted(CvctMint[x[1]].total_supply) + amount <= MaxSupply
             /\ deposit_and_mint(x[1], x[2], a, x[3], x[4], x[5], amount, <<>>)
             /\ UNCHANGED arc
    \/ \E a \in DOMAIN CvctAccount, amount \in Amounts :
          \E x \in LinkageArgs(a) :
             /\ x = Derived(a) \/ amount = 1
             /\ burn_and_withdraw(x[1], x[2], a, x[3], x[4], x[5], amount, <<>>)
             /\ UNCHANGED arc
    \/ \E m \in DOMAIN CvctMint, f \in DOMAIN CvctAccount, t \in DOMAIN CvctAccount,
          from \in Wallets, amount \in Amounts :
          /\ (m = CvctAccount[f].cvct_mint /\ from = CvctAccount[f].owner) \/ amount = 1
          /\ transfer_cvct(m, f, t, from, ClientCiphertext(amount), 0, <<>>)
          /\ UNCHANGED arc

SpecLinkage == Init /\ [][NextLinkage]_vars

(***************************************************************************)
(* The ledger with the payroll scheduler.  Every wallet may create a mint; *)
(* the instructions are given the account arguments a client derives.      *)
(***************************************************************************)
OrgAuthorities == {<<"u1">>}     \* the wallets that create an organization
Rates == 1..MaxRate

NextPayroll ==
    \/ \E authority \in Wallets :
          /\ MintPda(authority) \notin DOMAIN CvctMint
          /\ initialize_cvct_mint(authority) /\ UNCHANGED arc
    \/ \E m \in DOMAIN CvctMint, owner \in Wallets :
          /\ AccountPda(m, owner) \notin DOMAIN CvctAccount
          /\ Cardinality(DOMAIN CvctAccount) < MaxAccounts
          /\ initialize_cvct_account(m, owner) /\ UNCHANGED arc
    \/ \E a \in DOMAIN CvctAccount :
          LET m == CvctAccount[a].cvct_mint
              v == VaultPda(CvctMint[m].authority)
              user == CvctAccount[a].owner
          IN  /\ user \in Wallets
              /\ decrypted(CvctMint[m].total_supply) + 1 <= MaxSupply
              /\ deposit_and_mint(m, v, a, user, AtaPda(BackingMint, user),
                                  AtaPda(BackingMint, v), 1, <<>>)
              /\ UNCHANGED arc
    \/ \E authority \in OrgAuthorities, m \in DOMAIN CvctMint,
          treasury_vault \in DOMAIN CvctAccount :
          /\ OrgPda(authority) \notin DOMAIN Organization
          /\ init_org(authority, m, treasury_vault) /\ UNCHANGED arc
    \/ \E org \in DOMAIN Organization :
          /\ OrgTreasuryPda(org) \notin DOMAIN CvctAccount
          /\ init_org_treasury(org, Organization[org].cvct_mint, Organization[org].authority)
          /\ UNCHANGED arc
    \/ \E org \in DOMAIN Organization, interval \in Intervals :
          /\ PayrollPda(org, Organization[org].authority) \notin DOMAIN Payroll
          /\ create_payroll(org, Organization[org].authority, interval) /\ UNCHANGED arc
    \/ \E p \in DOMAIN Payroll, a \in DOMAIN CvctAccount, rate \in Rates :
          /\ PayrollMemberPda(p, CvctAccount[a].owner) \notin DOMAIN PayrollMember
          /\ add_payroll_member(Payroll[p].org, p, CvctAccount[a].owner, a,
                             Organization[Payroll[p].org].authority, rate)
          /\ UNCHANGED arc
    \/ \E ms \in DOMAIN PayrollMember :
          LET p == PayrollMember[ms].payroll
              org == Payroll[p].org
          IN  run_payroll_for_member(org, p, ms, Organization[org].cvct_treasury_vault,
                                     PayrollMember[ms].cvct_wallet)
              /\ UNCHANGED arc
    \/ Tick /\ UNCHANGED arc

SpecPayroll == Init /\ [][NextPayroll]_vars

(***************************************************************************)
(* Signers.  A ledger in which every mint issues at most one token and any *)
(* wallet signs, and one organization whose payroll instructions are       *)
(* signed by any wallet.                                                   *)
(***************************************************************************)
\* the derived arguments, another signer, or another signer with another vault
AuthArgs(a) ==
    LET d == Derived(a) IN
    {d} \cup {<<d[1], d[2], u, AtaPda(BackingMint, u), d[5]>> : u \in Wallets}
        \cup {<<d[1], w, u, d[4], d[5]>> : w \in DOMAIN Vault, u \in Wallets}

NextAuth ==
    \/ \E authority \in Wallets :
          /\ MintPda(authority) \notin DOMAIN CvctMint
          /\ initialize_cvct_mint(authority) /\ UNCHANGED arc
    \/ \E m \in DOMAIN CvctMint, owner \in Wallets :
          /\ AccountPda(m, owner) \notin DOMAIN CvctAccount
          /\ CvctMint[m].authority \in Authorities \/ owner = CvctMint[m].authority
          /\ initialize_cvct_account(m, owner) /\ UNCHANGED arc
    \/ \E a \in DOMAIN CvctAccount : \E x \in AuthArgs(a) :
          /\ decrypted(CvctMint[x[1]].total_supply) = 0
          /\ deposit_and_mint(x[1], x[2], a, x[3], x[4], x[5], 1, <<>>)
          /\ UNCHANGED arc
    \/ \E a \in DOMAIN CvctAccount : \E x \in AuthArgs(a) :
          /\ burn_and_withdraw(x[1], x[2], a, x[3], x[4], x[5], 1, <<>>)
          /\ UNCHANGED arc
    \/ \E m \in DOMAIN CvctMint, f \in DOMAIN CvctAccount, t \in DOMAIN CvctAccount,
          from \in Wallets :
          /\ transfer_cvct(m, f, t, from, ClientCiphertext(1), 0, <<>>)
          /\ UNCHANGED arc
    \/ \E authority \in OrgAuthorities, m \in DOMAIN CvctMint :
          /\ OrgPda(authority) \notin DOMAIN Organization
          /\ AccountPda(m, authority) \in DOMAIN CvctAccount
          /\ init_org(authority, m, AccountPda(m, authority)) /\ UNCHANGED arc
    \/ \E org \in DOMAIN Organization, admin \in Wallets :
          /\ PayrollPda(org, admin) \notin DOMAIN Payroll
          /\ create_payroll(org, admin, 1) /\ UNCHANGED arc
    \/ \E p \in DOMAIN Payroll, a \in DOMAIN CvctAccount, admin \in Wallets :
          /\ PayrollMemberPda(p, CvctAccount[a].owner) \notin DOMAIN PayrollMember
          /\ CvctAccount[a].owner \notin OrgAuthorities
          /\ add_payroll_member(Payroll[p].org, p, CvctAccount[a].owner, a, admin, 1)
          /\ UNCHANGED arc
    \/ \E ms \in DOMAIN PayrollMember, admin \in Wallets, active \in BOOLEAN :
          /\ PayrollMember[ms].payroll \in DOMAIN Payroll
          /\ update_payroll_member(Payroll[PayrollMember[ms].payroll].org,
                                   PayrollMember[ms].payroll, ms, admin, 1, active)
          /\ UNCHANGED arc
    \/ \E p \in DOMAIN Payroll, admin \in Wallets :
          /\ pause_payroll(Payroll[p].org, p, admin) /\ UNCHANGED arc
    \/ \E p \in DOMAIN Payroll, admin \in Wallets :
          /\ resume_payroll(Payroll[p].org, p, admin) /\ UNCHANGED arc
    \/ \E p \in DOMAIN Payroll, admin \in Wallets :
          /\ close_payroll(Payroll[p].org, p, admin) /\ UNCHANGED arc

SpecAuth == Init /\ [][NextAuth]_vars

(***************************************************************************)
(* The payroll scheduler with its administration: one mint, one            *)
(* organization that pays the other wallets from its authority's account;  *)
(* members that are updated, a payroll that is paused, resumed, closed and *)
(* created again.                                                          *)
(***************************************************************************)
NextSchedule ==
    \/ \E authority \in Authorities :
          /\ MintPda(authority) \notin DOMAIN CvctMint
          /\ initialize_cvct_mint(authority) /\ UNCHANGED arc
    \/ \E m \in DOMAIN CvctMint, owner \in Wallets :
          /\ AccountPda(m, owner) \notin DOMAIN CvctAccount
          /\ Cardinality(DOMAIN CvctAccount) < MaxAccounts
          /\ initialize_cvct_account(m, owner) /\ UNCHANGED arc
    \/ \E a \in DOMAIN CvctAccount :
          LET m == CvctAccount[a].cvct_mint
              v == VaultPda(CvctMint[m].authority)
              user == CvctAccount[a].owner
          IN  /\ decrypted(CvctMint[m].total_supply) + 1 <= MaxSupply
              /\ deposit_and_mint(m, v, a, user, AtaPda(BackingMint, user),
                                  AtaPda(BackingMint, v), 1, <<>>)
              /\ UNCHANGED arc
    \/ \E authority \in OrgAuthorities, m \in DOMAIN CvctMint :
          /\ OrgPda(authority) \notin DOMAIN Organization
          /\ AccountPda(m, authority) \in DOMAIN CvctAccount
          /\ init_org(authority, m, AccountPda(m, authority)) /\ UNCHANGED arc
    \/ \E org \in DOMAIN Organization, interval \in Intervals :
          /\ PayrollPda(org, Organization[org].authority) \notin DOMAIN Payroll
          /\ create_payroll(org, Organization[org].authority, interval) /\ UNCHANGED arc
    \/ \E p \in DOMAIN Payroll, a \in DOMAIN CvctAccount, rate \in 1..(MaxRate + 1) :
          /\ PayrollMemberPda(p, CvctAccount[a].owner) \notin DOMAIN PayrollMember
          /\ CvctAccount[a].owner \notin OrgAuthorities
          /\ add_payroll_member(Payroll[p].org, p, CvctAccount[a].owner, a,
                                Organization[Payroll[p].org].authority, rate)
          /\ UNCHANGED arc
    \/ \E org \in DOMAIN Organization, ms \in DOMAIN PayrollMember,
          new_rate \in 1..(MaxRate + 1), active \in BOOLEAN :
          /\ update_payroll_member(org, PayrollMember[ms].payroll, ms,
                                   Organization[org].authority, new_rate, active)
          /\ UNCHANGED arc
    \/ \E org \in DOMAIN Organization :
          /\ PayrollPda(org, Organization[org].authority) \in DOMAIN Payroll
          /\ pause_payroll(org, PayrollPda(org, Organization[org].authority),
                           Organization[org].authority)
          /\ UNCHANGED arc
    \/ \E org \in DOMAIN Organization :
          /\ PayrollPda(org, Organization[org].authority) \in DOMAIN Payroll
          /\ resume_payroll(org, PayrollPda(org, Organization[org].authority),
                            Organization[org].authority)
          /\ UNCHANGED arc
    \/ \E org \in DOMAIN Organization :
          /\ PayrollPda(org, Organization[org].authority) \in DOMAIN Payroll
          /\ close_payroll(org, PayrollPda(org, Organization[org].authority),
                           Organization[org].authority)
          /\ UNCHANGED arc
    \/ \E org \in DOMAIN Organization, ms \in DOMAIN PayrollMember :
          /\ run_payroll_for_member(org, PayrollMember[ms].payroll, ms,
                                    Organization[org].cvct_treasury_vault,
                                    PayrollMember[ms].cvct_wallet)
          /\ UNCHANGED arc
    \/ Tick /\ UNCHANGED arc

SpecSchedule == Init /\ [][NextSchedule]_vars

(***************************************************************************)
(* A funded payroll over a longer time.  The authority deposits Fund       *)
(* tokens into the treasury account, creates the organization and a        *)
(* payroll of any interval tried, zero and negative included, and enrolls  *)
(* the other wallet at any rate tried; the payroll is then updated,        *)
(* paused, resumed, closed, created again and run while the clock          *)
(* advances.                                                               *)
(***************************************************************************)
AccrualIntervals == {-1, 0, 1, 2}
AccrualRates     == {1, 2, U64 \div 2}

InitAccrual ==
    /\ CvctMint = Empty
    /\ Vault = Empty
    /\ CvctAccount = Empty
    /\ TokenAccount = [a \in {AtaPda(BackingMint, w) : w \in Wallets} |->
                          [mint |-> BackingMint, owner |-> a[3], amount |-> Fund]]
    /\ Organization = Empty
    /\ Payroll = Empty
    /\ PayrollMember = Empty
    /\ now = 1
    /\ lastOp = Op("init", TRUE, "", <<>>, None, None, 0)
    /\ ArcCvctMint = Empty
    /\ ArcVault = Empty
    /\ ArcCvctAccount = Empty
    /\ ArcTokenAccount = [a \in {AtaPda(BackingMint, w) : w \in Wallets} |->
                          [mint |-> BackingMint, owner |-> a[3], amount |-> ArcInitTokens]]
    /\ Computation = Empty
    /\ arcOp = ArcOp("init", TRUE, "", 0, FALSE)

NextAccrual ==
    \/ \E authority \in OrgAuthorities :
          /\ MintPda(authority) \notin DOMAIN CvctMint
          /\ initialize_cvct_mint(authority) /\ UNCHANGED arc
    \/ \E m \in DOMAIN CvctMint, owner \in Wallets :
          /\ AccountPda(m, owner) \notin DOMAIN CvctAccount
          /\ initialize_cvct_account(m, owner) /\ UNCHANGED arc
    \/ \E a \in DOMAIN CvctAccount :
          LET m == CvctAccount[a].cvct_mint
              v == VaultPda(CvctMint[m].authority)
              user == CvctAccount[a].owner
          IN  /\ user \in OrgAuthorities
              /\ decrypted(CvctMint[m].total_supply) = 0
              /\ deposit_and_mint(m, v, a, user, AtaPda(BackingMint, user),
                                  AtaPda(BackingMint, v), Fund, <<>>)
              /\ UNCHANGED arc
    \/ \E authority \in OrgAuthorities, m \in DOMAIN CvctMint :
          /\ OrgPda(authority) \notin DOMAIN Organization
          /\ AccountPda(m, authority) \in DOMAIN CvctAccount
          /\ decrypted(CvctAccount[AccountPda(m, authority)].balance) = Fund
          /\ init_org(authority, m, AccountPda(m, authority)) /\ UNCHANGED arc
    \/ \E org \in DOMAIN Organization, interval \in AccrualIntervals :
          /\ PayrollPda(org, Organization[org].authority) \notin DOMAIN Payroll
          /\ create_payroll(org, Organization[org].authority, interval) /\ UNCHANGED arc
    \/ \E p \in DOMAIN Payroll, a \in DOMAIN CvctAccount, rate \in AccrualRates :
          /\ PayrollMemberPda(p, CvctAccount[a].owner) \notin DOMAIN PayrollMember
          /\ CvctAccount[a].owner \notin OrgAuthorities
          /\ add_payroll_member(Payroll[p].org, p, CvctAccount[a].owner, a,
                                Organization[Payroll[p].org].authority, rate)
          /\ UNCHANGED arc
    \/ \E org \in DOMAIN Organization, ms \in DOMAIN PayrollMember,
          new_rate \in AccrualRates, active \in BOOLEAN :
          /\ PayrollMember[ms].payroll \in DOMAIN Payroll
          /\ update_payroll_member(org, PayrollMember[ms].payroll, ms,
                                   Organization[org].authority, new_rate, active)
          /\ UNCHANGED arc
    \/ \E org \in DOMAIN Organization :
          /\ PayrollPda(org, Organization[org].authority) \in DOMAIN Payroll
          /\ pause_payroll(org, PayrollPda(org, Organization[org].authority),
                           Organization[org].authority)
          /\ UNCHANGED arc
    \/ \E org \in DOMAIN Organization :
          /\ PayrollPda(org, Organization[org].authority) \in DOMAIN Payroll
          /\ resume_payroll(org, PayrollPda(org, Organization[org].authority),
                            Organization[org].authority)
          /\ UNCHANGED arc
    \/ \E org \in DOMAIN Organization :
          /\ PayrollPda(org, Organization[org].authority) \in DOMAIN Payroll
          /\ close_payroll(org, PayrollPda(org, Organization[org].authority),
                           Organization[org].authority)
          /\ UNCHANGED arc
    \/ \E org \in DOMAIN Organization, ms \in DOMAIN PayrollMember :
          /\ run_payroll_for_member(org, PayrollMember[ms].payroll, ms,
                                    Organization[org].cvct_treasury_vault,
                                    PayrollMember[ms].cvct_wallet)
          /\ UNCHANGED arc
    \/ /\ PayrollMember # Empty
       /\ TickUntil(MaxClock) /\ UNCHANGED arc

SpecAccrual == InitAccrual /\ [][NextAccrual]_vars

(***************************************************************************)
(* One member at a constant rate.  The funded payroll with a positive      *)
(* interval that is never closed; update_payroll_member keeps the rate;    *)
(* the clock advances once the member has been paid, so the first payment  *)
(* is made at FirstPayment.                                                *)
(***************************************************************************)
FirstPayment == 1

NextBound ==
    \/ \E authority \in OrgAuthorities :
          /\ MintPda(authority) \notin DOMAIN CvctMint
          /\ initialize_cvct_mint(authority) /\ UNCHANGED arc
    \/ \E m \in DOMAIN CvctMint, owner \in Wallets :
          /\ AccountPda(m, owner) \notin DOMAIN CvctAccount
          /\ initialize_cvct_account(m, owner) /\ UNCHANGED arc
    \/ \E a \in DOMAIN CvctAccount :
          LET m == CvctAccount[a].cvct_mint
              v == VaultPda(CvctMint[m].authority)
              user == CvctAccount[a].owner
          IN  /\ user \in OrgAuthorities
              /\ decrypted(CvctMint[m].total_supply) = 0
              /\ deposit_and_mint(m, v, a, user, AtaPda(BackingMint, user),
                                  AtaPda(BackingMint, v), Fund, <<>>)
              /\ UNCHANGED arc
    \/ \E authority \in OrgAuthorities, m \in DOMAIN CvctMint :
          /\ OrgPda(authority) \notin DOMAIN Organization
          /\ AccountPda(m, authority) \in DOMAIN CvctAccount
          /\ decrypted(CvctAccount[AccountPda(m, authority)].balance) = Fund
          /\ init_org(authority, m, AccountPda(m, authority)) /\ UNCHANGED arc
    \/ \E org \in DOMAIN Organization, interval \in Intervals :
          /\ PayrollPda(org, Organization[org].authority) \notin DOMAIN Payroll
          /\ create_payroll(org, Organization[org].authority, interval) /\ UNCHANGED arc
    \/ \E p \in DOMAIN Payroll, a \in DOMAIN CvctAccount, rate \in 1..(MaxRate + 1) :
          /\ PayrollMemberPda(p, CvctAccount[a].owner) \notin DOMAIN PayrollMember
          /\ CvctAccount[a].owner \notin OrgAuthorities
          /\ add_payroll_member(Payroll[p].org, p, CvctAccount[a].owner, a,
                                Organization[Payroll[p].org].authority, rate)
          /\ UNCHANGED arc
    \/ \E org \in DOMAIN Organization, ms \in DOMAIN PayrollMember, active \in BOOLEAN :
          /\ update_payroll_member(org, PayrollMember[ms].payroll, ms,
                                   Organization[org].authority,
                                   PayrollMember[ms].rate, active)
          /\ UNCHANGED arc
    \/ \E org \in DOMAIN Organization :
          /\ PayrollPda(org, Organization[org].authority) \in DOMAIN Payroll
          /\ pause_payroll(org, PayrollPda(org, Organization[org].authority),
                           Organization[org].authority)
          /\ UNCHANGED arc
    \/ \E org \in DOMAIN Organization :
          /\ PayrollPda(org, Organization[org].authority) \in DOMAIN Payroll
          /\ resume_payroll(org, PayrollPda(org, Organization[org].authority),
                            Organization[org].authority)
          /\ UNCHANGED arc
    \/ \E org \in DOMAIN Organization, ms \in DOMAIN PayrollMember :
          /\ run_payroll_for_member(org, PayrollMember[ms].payroll, ms,
                                    Organization[org].cvct_treasury_vault,
                                    PayrollMember[ms].cvct_wallet)
          /\ UNCHANGED arc
    \/ /\ \E ms \in DOMAIN PayrollMember : PayrollMember[ms].last_paid # 0
       /\ TickUntil(MaxClock) /\ UNCHANGED arc

SpecBound == InitAccrual /\ [][NextBound]_vars

(***************************************************************************)
(* Closing a payroll and creating it again.  The interval tells the two    *)
(* apart: a payroll is created with FirstInterval at an address no member  *)
(* record names and with LaterInterval at an address member records name,  *)
(* which is an address whose payroll was closed; members are added to a    *)
(* payroll with FirstInterval.                                             *)
(***************************************************************************)
FirstInterval == 1
LaterInterval == 2

\* the member records that name the payroll address p
AttachedTo(p) == {ms \in DOMAIN PayrollMember : PayrollMember[ms].payroll = p}

NextClose ==
    \/ \E authority \in OrgAuthorities :
          /\ MintPda(authority) \notin DOMAIN CvctMint
          /\ initialize_cvct_mint(authority) /\ UNCHANGED arc
    \/ \E m \in DOMAIN CvctMint, owner \in Wallets :
          /\ AccountPda(m, owner) \notin DOMAIN CvctAccount
          /\ initialize_cvct_account(m, owner) /\ UNCHANGED arc
    \/ \E a \in DOMAIN CvctAccount :
          LET m == CvctAccount[a].cvct_mint
              v == VaultPda(CvctMint[m].authority)
              user == CvctAccount[a].owner
          IN  /\ user \in OrgAuthorities
              /\ decrypted(CvctMint[m].total_supply) = 0
              /\ deposit_and_mint(m, v, a, user, AtaPda(BackingMint, user),
                                  AtaPda(BackingMint, v), Fund, <<>>)
              /\ UNCHANGED arc
    \/ \E authority \in OrgAuthorities, m \in DOMAIN CvctMint :
          /\ OrgPda(authority) \notin DOMAIN Organization
          /\ AccountPda(m, authority) \in DOMAIN CvctAccount
          /\ decrypted(CvctAccount[AccountPda(m, authority)].balance) = Fund
          /\ init_org(authority, m, AccountPda(m, authority)) /\ UNCHANGED arc
    \/ \E org \in DOMAIN Organization :
          LET p == PayrollPda(org, Organization[org].authority) IN
          /\ p \notin DOMAIN Payroll
          /\ create_payroll(org, Organization[org].authority,
                            IF AttachedTo(p) = {} THEN FirstInterval ELSE LaterInterval)
          /\ UNCHANGED arc
    \/ \E p \in DOMAIN Payroll, a \in DOMAIN CvctAccount, rate \in 1..(MaxRate + 1) :
          /\ PayrollMemberPda(p, CvctAccount[a].owner) \notin DOMAIN PayrollMember
          /\ CvctAccount[a].owner \notin OrgAuthorities
          /\ Payroll[p].interval = FirstInterval
          /\ add_payroll_member(Payroll[p].org, p, CvctAccount[a].owner, a,
                                Organization[Payroll[p].org].authority, rate)
          /\ UNCHANGED arc
    \/ \E org \in DOMAIN Organization, ms \in DOMAIN PayrollMember, active \in BOOLEAN :
          /\ update_payroll_member(org, PayrollMember[ms].payroll, ms,
                                   Organization[org].authority,
                                   PayrollMember[ms].rate, active)
          /\ UNCHANGED arc
    \/ \E org \in DOMAIN Organization :
          /\ PayrollPda(org, Organization[org].authority) \in DOMAIN Payroll
          /\ pause_payroll(org, PayrollPda(org, Organization[org].authority),
                           Organization[org].authority)
          /\ UNCHANGED arc
    \/ \E org \in DOMAIN Organization :
          /\ PayrollPda(org, Organization[org].authority) \in DOMAIN Payroll
          /\ resume_payroll(org, PayrollPda(org, Organization[org].authority),
                            Organization[org].authority)
          /\ UNCHANGED arc
    \/ \E org \in DOMAIN Organization, ms \in DOMAIN PayrollMember :
          /\ run_payroll_for_member(org, PayrollMember[ms].payroll, ms,
                                    Organization[org].cvct_treasury_vault,
                                    PayrollMember[ms].cvct_wallet)
          /\ UNCHANGED arc
    \/ \E org \in DOMAIN Organization :
          /\ PayrollPda(org, Organization[org].authority) \in DOMAIN Payroll
          /\ close_payroll(org, PayrollPda(org, Organization[org].authority),
                           Organization[org].authority)
          /\ UNCHANGED arc
    \/ /\ PayrollMember # Empty
       /\ TickUntil(MaxTime) /\ UNCHANGED arc

SpecClose == InitAccrual /\ [][NextClose]_vars

(***************************************************************************)
(* The asynchronous program with its cluster.  A client passes its own key *)
(* and the nonces the records hold when it builds the request, and draws   *)
(* fresh output nonces (no nonce is drawn twice); a computation offset is  *)
(* the next unused one.  An output with a bad signature is delivered for   *)
(* the jobs that have an output.                                           *)
(***************************************************************************)
ArcAuthorities == {<<"u1">>}
\* the i-th nonce drawn for the request with this offset
FreshNonce(computation_offset, i) == 3 * computation_offset + i - 3
\* the x25519 key of a wallet's owner
EncKey(wallet) == IF wallet = <<"u1">> THEN 1 ELSE 2
Offsets == 1..MaxJobs
OffsetChoices == {o \in Offsets : o = Cardinality(DOMAIN Computation) + 1}
JobsOfKind(kind) == {o \in DOMAIN Computation : Computation[o].kind = kind}

Deliverable(o, signed) == signed \/ Computation[o].status = "Completed"

NextArc ==
    \/ \E authority \in ArcAuthorities, o \in OffsetChoices :
          arc_initialize_cvct_mint(authority, o, EncKey(authority),
                                   FreshNonce(o, 1), FreshNonce(o, 2))
          /\ UNCHANGED sync
    \/ \E m \in DOMAIN ArcCvctMint, owner \in ArcAuthorities, o \in OffsetChoices :
          arc_initialize_cvct_account(m, owner, o, EncKey(owner), FreshNonce(o, 1))
          /\ UNCHANGED sync
    \/ \E a \in DOMAIN ArcCvctAccount, user \in Wallets, o \in OffsetChoices,
          amount \in Amounts :
          LET m == ArcCvctAccount[a].cvct_mint
              v == ArcVaultPda(m)
          IN  /\ arc_deposit_and_mint(m, v, a, user, AtaPda(BackingMint, user),
                     AtaPda(BackingMint, v), o, amount,
                     ArcCvctAccount[a].owner_enc_pubkey,
                     ArcCvctAccount[a].balance_nonce, FreshNonce(o, 1),
                     ArcCvctMint[m].authority_enc_pubkey,
                     ArcCvctMint[m].total_supply_nonce, FreshNonce(o, 2),
                     ArcCvctMint[m].authority_enc_pubkey,
                     ArcVault[v].total_locked_nonce, FreshNonce(o, 3))
              /\ UNCHANGED sync
    \/ \E o \in DOMAIN Computation : ClusterExecute(o) /\ UNCHANGED sync
    \/ \E o \in DOMAIN Computation : ClusterAbort(o) /\ UNCHANGED sync
    \/ \E o \in JobsOfKind("init_mint_state"), signed \in BOOLEAN :
          LET t == Computation[o].callback_accounts IN
          /\ Deliverable(o, signed)
          /\ init_mint_state_callback(t[1], t[2], SignedOutput(o, signed))
          /\ UNCHANGED sync
    \/ \E o \in JobsOfKind("init_account_state"), signed \in BOOLEAN :
          LET t == Computation[o].callback_accounts IN
          /\ Deliverable(o, signed)
          /\ init_account_state_callback(t[1], SignedOutput(o, signed))
          /\ UNCHANGED sync
    \/ \E o \in JobsOfKind("deposit_and_mint"), signed \in BOOLEAN :
          LET t == Computation[o].callback_accounts IN
          /\ Deliverable(o, signed)
          /\ deposit_and_mint_callback(t[1], t[2], t[3], SignedOutput(o, signed))
          /\ UNCHANGED sync

SpecArc == Init /\ [][NextArc]_vars

(***************************************************************************)
(* The deposits of both programs, with amounts up to one more than a       *)
(* wallet holds, so that the custody transfer can fail.                    *)
(***************************************************************************)
NextDeposit ==
    \/ \E authority \in Authorities :
          /\ MintPda(authority) \notin DOMAIN CvctMint
          /\ initialize_cvct_mint(authority) /\ UNCHANGED arc
    \/ \E m \in DOMAIN CvctMint, owner \in Wallets :
          /\ AccountPda(m, owner) \notin DOMAIN CvctAccount
          /\ initialize_cvct_account(m, owner) /\ UNCHANGED arc
    \/ \E a \in DOMAIN CvctAccount, amount \in 0..(InitTokens + 1) :
          LET m == CvctAccount[a].cvct_mint
              v == VaultPda(CvctMint[m].authority)
              user == CvctAccount[a].owner
          IN  /\ decrypted(CvctMint[m].total_supply) + amount <= MaxSupply + 1
              /\ deposit_and_mint(m, v, a, user, AtaPda(BackingMint, user),
                                  AtaPda(BackingMint, v), amount, <<>>)
              /\ UNCHANGED arc
    \/ \E authority \in ArcAuthorities, o \in OffsetChoices :
          /\ MintPda(authority) \notin DOMAIN ArcCvctMint
          /\ arc_initialize_cvct_mint(authority, o, EncKey(authority),
                                      FreshNonce(o, 1), FreshNonce(o, 2))
          /\ UNCHANGED sync
    \/ \E m \in DOMAIN ArcCvctMint, owner \in ArcAuthorities, o \in OffsetChoices :
          /\ AccountPda(m, owner) \notin DOMAIN ArcCvctAccount
          /\ arc_initialize_cvct_account(m, owner, o, EncKey(owner), FreshNonce(o, 1))
          /\ UNCHANGED sync
    \/ \E a \in DOMAIN ArcCvctAccount, o \in OffsetChoices,
          amount \in 0..(ArcInitTokens + 1) :
          LET m == ArcCvctAccount[a].cvct_mint
              v == ArcVaultPda(m)
              user == ArcCvctAccount[a].owner
          IN  /\ arc_deposit_and_mint(m, v, a, user, AtaPda(BackingMint, user),
                     AtaPda(BackingMint, v), o, amount,
                     ArcCvctAccount[a].owner_enc_pubkey,
                     ArcCvctAccount[a].balance_nonce, FreshNonce(o, 1),
                     ArcCvctMint[m].authority_enc_pubkey,
                     ArcCvctMint[m].total_supply_nonce, FreshNonce(o, 2),
                     ArcCvctMint[m].authority_enc_pubkey,
                     ArcVault[v].total_locked_nonce, FreshNonce(o, 3))
              /\ UNCHANGED sync

SpecDeposit == Init /\ [][NextDeposit]_vars

(***************************************************************************)
(*                              Properties                                 *)
(***************************************************************************)
(***************************************************************************)
(* The asynchronous program with clients that pick the nonces of the       *)
(* initial outputs and of the new balance themselves, from a small set:    *)
(* the program accepts any u128.  Every output is delivered with the       *)
(* cluster's signature.                                                    *)
(***************************************************************************)
Nonces == 1..MaxNonce

NextNonce ==
    \/ \E authority \in ArcAuthorities, o \in OffsetChoices,
          authority_nonce \in Nonces, vault_nonce \in Nonces :
          /\ MintPda(authority) \notin DOMAIN ArcCvctMint
          /\ arc_initialize_cvct_mint(authority, o, EncKey(authority),
                                   authority_nonce, vault_nonce)
          /\ UNCHANGED sync
    \/ \E m \in DOMAIN ArcCvctMint, owner \in ArcAuthorities, o \in OffsetChoices,
          owner_nonce \in Nonces :
          /\ AccountPda(m, owner) \notin DOMAIN ArcCvctAccount
          /\ arc_initialize_cvct_account(m, owner, o, EncKey(owner), owner_nonce)
          /\ UNCHANGED sync
    \/ \E a \in DOMAIN ArcCvctAccount, o \in OffsetChoices,
          owner_new_balance_nonce \in Nonces :
          LET m == ArcCvctAccount[a].cvct_mint
              v == ArcVaultPda(m)
              user == ArcCvctAccount[a].owner
          IN  /\ arc_deposit_and_mint(m, v, a, user, AtaPda(BackingMint, user),
                     AtaPda(BackingMint, v), o, 1,
                     ArcCvctAccount[a].owner_enc_pubkey,
                     ArcCvctAccount[a].balance_nonce, owner_new_balance_nonce,
                     ArcCvctMint[m].authority_enc_pubkey,
                     ArcCvctMint[m].total_supply_nonce, FreshNonce(o, 2),
                     ArcCvctMint[m].authority_enc_pubkey,
                     ArcVault[v].total_locked_nonce, FreshNonce(o, 3))
              /\ UNCHANGED sync
    \/ \E o \in DOMAIN Computation : ClusterExecute(o) /\ UNCHANGED sync
    \/ \E o \in JobsOfKind("init_mint_state") :
          LET t == Computation[o].callback_accounts IN
          /\ Computation[o].status = "Completed"
          /\ init_mint_state_callback(t[1], t[2], SignedOutput(o, TRUE))
          /\ UNCHANGED sync
    \/ \E o \in JobsOfKind("init_account_state") :
          LET t == Computation[o].callback_accounts IN
          /\ Computation[o].status = "Completed"
          /\ init_account_state_callback(t[1], SignedOutput(o, TRUE))
          /\ UNCHANGED sync
    \/ \E o \in JobsOfKind("deposit_and_mint") :
          LET t == Computation[o].callback_accounts IN
          /\ Computation[o].status = "Completed"
          /\ deposit_and_mint_callback(t[1], t[2], t[3], SignedOutput(o, TRUE))
          /\ UNCHANGED sync

SpecNonce == Init /\ [][NextNonce]_vars

(***************************************************************************)
(* The asynchronous program with a depositor that picks the three          *)
(* encryption keys of a deposit: the program accepts any [u8; 32].  The    *)
(* deposits are made one after the other, and every output is delivered    *)
(* with the cluster's signature.                                           *)
(***************************************************************************)
EncKeys == {EncKey(w) : w \in Wallets}

NextKeys ==
    \/ \E authority \in ArcAuthorities, o \in OffsetChoices :
          /\ MintPda(authority) \notin DOMAIN ArcCvctMint
          /\ arc_initialize_cvct_mint(authority, o, EncKey(authority),
                                      FreshNonce(o, 1), FreshNonce(o, 2))
          /\ UNCHANGED sync
    \/ \E m \in DOMAIN ArcCvctMint, owner \in ArcAuthorities, o \in OffsetChoices :
          /\ AccountPda(m, owner) \notin DOMAIN ArcCvctAccount
          /\ arc_initialize_cvct_account(m, owner, o, EncKey(owner), FreshNonce(o, 1))
          /\ UNCHANGED sync
    \/ \E a \in DOMAIN ArcCvctAccount, o \in OffsetChoices, owner_enc_pubkey \in EncKeys,
          mint_enc_pubkey \in EncKeys, vault_enc_pubkey \in EncKeys :
          LET m == ArcCvctAccount[a].cvct_mint
              v == ArcVaultPda(m)
              user == ArcCvctAccount[a].owner
          IN  /\ \A q \in JobsOfKind("deposit_and_mint") :
                     Computation[q].status = "Verified"
              /\ arc_deposit_and_mint(m, v, a, user, AtaPda(BackingMint, user),
                     AtaPda(BackingMint, v), o, 1,
                     owner_enc_pubkey,
                     ArcCvctAccount[a].balance_nonce, FreshNonce(o, 1),
                     mint_enc_pubkey,
                     ArcCvctMint[m].total_supply_nonce, FreshNonce(o, 2),
                     vault_enc_pubkey,
                     ArcVault[v].total_locked_nonce, FreshNonce(o, 3))
              /\ UNCHANGED sync
    \/ \E o \in DOMAIN Computation : ClusterExecute(o) /\ UNCHANGED sync
    \/ \E o \in JobsOfKind("init_mint_state") :
          LET t == Computation[o].callback_accounts IN
          /\ Computation[o].status = "Completed"
          /\ init_mint_state_callback(t[1], t[2], SignedOutput(o, TRUE))
          /\ UNCHANGED sync
    \/ \E o \in JobsOfKind("init_account_state") :
          LET t == Computation[o].callback_accounts IN
          /\ Computation[o].status = "Completed"
          /\ init_account_state_callback(t[1], SignedOutput(o, TRUE))
          /\ UNCHANGED sync
    \/ \E o \in JobsOfKind("deposit_and_mint") :
          LET t == Computation[o].callback_accounts IN
          /\ Computation[o].status = "Completed"
          /\ deposit_and_mint_callback(t[1], t[2], t[3], SignedOutput(o, TRUE))
          /\ UNCHANGED sync

SpecKeys == Init /\ [][NextKeys]_vars

(***************************************************************************)
(* The burn_and_withdraw circuit on its own.  No instruction of the        *)
(* program queues it, so the job is in the queue from the start, with      *)
(* every input drawn from the plaintexts and nonces below; the cluster     *)
(* executes or aborts it.                                                  *)
(***************************************************************************)
Plaintexts == 0..(MaxAmount + 1)

BurnAndWithdrawArgs(balance, amount, total_supply, total_locked, nonce) ==
    LET owner_in  == from_arcis(Shared(1, nonce), balance)
        mint_in   == from_arcis(Shared(2, nonce), total_supply)
        vault_in  == from_arcis(Shared(2, nonce + 1), total_locked)
    IN  <<EncArg(1, nonce, owner_in.ciphertexts), amount, Shared(1, nonce + 2),
          EncArg(2, nonce, mint_in.ciphertexts), Shared(2, nonce + 2),
          EncArg(2, nonce + 1, vault_in.ciphertexts), Shared(2, nonce + 3)>>

InitCircuit ==
    /\ CvctMint = Empty
    /\ Vault = Empty
    /\ CvctAccount = Empty
    /\ TokenAccount = [a \in {AtaPda(BackingMint, w) : w \in Wallets} |->
                          [mint |-> BackingMint, owner |-> a[3], amount |-> InitTokens]]
    /\ Organization = Empty
    /\ Payroll = Empty
    /\ PayrollMember = Empty
    /\ now = 1
    /\ lastOp = Op("init", TRUE, "", <<>>, None, None, 0)
    /\ ArcCvctMint = Empty
    /\ ArcVault = Empty
    /\ ArcCvctAccount = Empty
    /\ ArcTokenAccount = [a \in {AtaPda(BackingMint, w) : w \in Wallets} |->
                          [mint |-> BackingMint, owner |-> a[3], amount |-> ArcInitTokens]]
    /\ \E balance \in Plaintexts, amount \in Plaintexts, total_supply \in Plaintexts,
          total_locked \in Plaintexts, nonce \in Nonces :
          Computation = (1 :> Job("burn_and_withdraw",
                                  BurnAndWithdrawArgs(balance, amount, total_supply,
                                                      total_locked, nonce), <<>>))
    /\ arcOp = ArcOp("init", TRUE, "", 0, FALSE)

NextCircuit ==
    \/ \E o \in DOMAIN Computation : ClusterExecute(o) /\ UNCHANGED sync
    \/ \E o \in DOMAIN Computation : ClusterAbort(o) /\ UNCHANGED sync

SpecCircuit == InitCircuit /\ [][NextCircuit]_vars

Callbacks == {"init_mint_state_callback", "init_account_state_callback",
              "deposit_and_mint_callback"}

\* what the authority reads from the two totals of a mint and its vault
ArcSupply(m) == arc_decrypted(ArcCvctMint[m].authority_enc_pubkey,
                              ArcCvctMint[m].total_supply_nonce,
                              ArcCvctMint[m].total_supply)
ArcLocked(m) == arc_decrypted(ArcCvctMint[m].authority_enc_pubkey,
                              ArcVault[ArcVaultPda(m)].total_locked_nonce,
                              ArcVault[ArcVaultPda(m)].total_locked)

RECURSIVE SumBalances(_)
SumBalances(accounts) ==
    IF accounts = {} THEN 0
    ELSE LET a == CHOOSE x \in accounts : TRUE
         IN  decrypted(CvctAccount[a].balance) + SumBalances(accounts \ {a})

AccountsOf(m) == {a \in DOMAIN CvctAccount : CvctAccount[a].cvct_mint = m}

Issued(calls, call) == \E i \in 1..Len(calls) : calls[i] = call

(***************************************************************************)
(* C1: in the asynchronous program, after every committed callback, the    *)
(* decrypted total supply of every mint equals the decrypted total locked  *)
(* of its vault, in any interleaving of queue calls and callbacks.         *)
(* The code does not keep it: a deposit's input nonces are fixed when the  *)
(* job is queued, the ciphertexts are read when it runs.                   *)
(***************************************************************************)
C1_ArcSupplyEqualsLocked ==
    (arcOp.op \in Callbacks /\ arcOp.ok) =>
        \A m \in DOMAIN ArcCvctMint : ArcSupply(m) = ArcLocked(m)

(***************************************************************************)
(* C2: in the synchronous program, after every successful deposit_and_mint *)
(* or burn_and_withdraw, whether the balance sufficed or not, the          *)
(* decrypted total supply of the mint equals the decrypted total locked of *)
(* its vault.                                                              *)
(***************************************************************************)
C2_SupplyEqualsLocked ==
    \A v \in DOMAIN Vault :
        decrypted(CvctMint[Vault[v].cvct_mint].total_supply)
            = decrypted(Vault[v].total_locked)

\* a burn the balance did not cover went through while supply is in circulation
C2_Witness ==
    /\ lastOp.op = "burn_and_withdraw" /\ lastOp.ok /\ lastOp.amount > 0
    /\ lastOp.amount > decrypted(CvctAccount[lastOp.acct].balance)
    /\ decrypted(CvctMint[CvctAccount[lastOp.acct].cvct_mint].total_supply) > 0

(***************************************************************************)
(* C3: in the synchronous program, in every reachable state, the decrypted *)
(* total supply of each mint equals the sum of the decrypted balances of   *)
(* the accounts of that mint.  The code does not keep it: init_org takes a *)
(* treasury account of any mint, and run_payroll_for_member then moves     *)
(* balance between the accounts of two mints.                              *)
(***************************************************************************)
C3_SupplyEqualsSumOfBalances ==
    \A m \in DOMAIN CvctMint :
        decrypted(CvctMint[m].total_supply) = SumBalances(AccountsOf(m))

(***************************************************************************)
(* C4: a transfer_cvct between two distinct accounts debits the source and *)
(* credits the destination by the same selected amount (the amount if the  *)
(* source balance covers it, else 0), so the sum of the two decrypted      *)
(* balances is the same before and after.                                  *)
(***************************************************************************)
C4_TransferSameSelectedAmount ==
    [][(lastOp'.op = "transfer_cvct" /\ lastOp'.ok /\ lastOp'.acct # lastOp'.to) =>
        LET f == lastOp'.acct
            t == lastOp'.to
            from_balance == decrypted(CvctAccount[f].balance)
            to_balance == decrypted(CvctAccount[t].balance)
            selected == IF from_balance >= lastOp'.amount THEN lastOp'.amount ELSE 0
        IN  /\ decrypted(CvctAccount'[f].balance) = from_balance - selected
            /\ decrypted(CvctAccount'[t].balance) = to_balance + selected
            /\ decrypted(CvctAccount'[f].balance) + decrypted(CvctAccount'[t].balance)
                   = from_balance + to_balance]_vars

\* a transfer the source did not cover went through, after one that it did
C4_Witness ==
    /\ lastOp.op = "transfer_cvct" /\ lastOp.ok /\ lastOp.acct # lastOp.to
    /\ lastOp.amount > decrypted(CvctAccount[lastOp.acct].balance)
    /\ decrypted(CvctAccount[lastOp.to].balance) > 0

(***************************************************************************)
(* C5: in the asynchronous program a job is committed at most once: a      *)
(* callback commits only a job that was not committed before, a committed  *)
(* job stays committed, and the signed output of a committed job delivered *)
(* again is rejected and changes no field.                                 *)
(***************************************************************************)
C5_CommittedAtMostOnce ==
    [][/\ \A o \in DOMAIN Computation :
              Computation[o].status = "Verified" => Computation'[o] = Computation[o]
       /\ (arcOp'.op \in Callbacks /\ arcOp'.ok) =>
              /\ Computation[arcOp'.job].status # "Verified"
              /\ Computation'[arcOp'.job].status = "Verified"
       /\ (/\ arcOp'.op \in Callbacks /\ arcOp'.signed
           /\ Computation[arcOp'.job].status = "Verified") =>
              /\ ~arcOp'.ok
              /\ UNCHANGED <<arcLedger, ArcTokenAccount, Computation>>]_vars

\* the signed output of a committed job was delivered again
C5_Witness ==
    /\ arcOp.op \in Callbacks /\ arcOp.signed /\ ~arcOp.ok
    /\ Computation[arcOp.job].status = "Verified"

(***************************************************************************)
(* C6: in each of the three callbacks, when the verification of the output *)
(* fails (bad signature, no pending job for it, job already committed) the *)
(* callback returns AbortedComputation and no ciphertext or nonce field of *)
(* any account, mint or vault changes.                                     *)
(***************************************************************************)
C6_FailedVerificationAborts ==
    [][\A name \in Callbacks :
          (/\ arcOp'.op = name
           /\ ~verify_output(SignedOutput(arcOp'.job, arcOp'.signed))) =>
              /\ ~arcOp'.ok
              /\ arcOp'.err = "AbortedComputation"
              /\ UNCHANGED arcLedger]_vars

\* an output with a bad signature was delivered for a job that has its output
C6_Witness ==
    /\ arcOp.op \in Callbacks /\ ~arcOp.signed /\ arcOp.err = "AbortedComputation"
    /\ Computation[arcOp.job].status = "Completed"

(***************************************************************************)
(* C7: burn_and_withdraw with an amount above the decrypted balance        *)
(* completes without an error and leaves the decrypted balance, total      *)
(* supply and total locked unchanged.  The code does not: it moves the     *)
(* full amount out of custody, and fails when custody does not hold it.    *)
(***************************************************************************)
C7_ObliviousBurnRaisesNoError ==
    [][(/\ lastOp'.op = "burn_and_withdraw" /\ lastOp'.acct # None
        /\ lastOp'.amount > decrypted(CvctAccount[lastOp'.acct].balance)) =>
            /\ lastOp'.ok
            /\ UNCHANGED <<CvctAccount, CvctMint, Vault>>]_vars

(***************************************************************************)
(* C8: the commit of a deposit is a blind overwrite.  A verified           *)
(* deposit_and_mint_callback stores exactly its job's output in balance,   *)
(* total supply and total locked; when another deposit computed from the   *)
(* same ciphertexts was committed before, the values after the later       *)
(* commit are the common pre-state plus the later amount only.             *)
(***************************************************************************)
C8_LaterCallbackOverwrites ==
    [][(/\ arcOp'.op = "deposit_and_mint_callback"
        /\ verify_output(SignedOutput(arcOp'.job, arcOp'.signed))) =>
        LET job == Computation[arcOp'.job]
            a == job.callback_accounts[1]
            m == job.callback_accounts[2]
            v == job.callback_accounts[3]
            pre(i, k) == to_arcis(EncArg(job.args[k].key, job.args[k].nonce, job.read[i]))
        IN  /\ arcOp'.ok
            /\ <<ArcCvctAccount'[a].balance, ArcCvctAccount'[a].balance_nonce>>
                   = <<job.output[1].ciphertexts, job.output[1].nonce>>
            /\ <<ArcCvctMint'[m].total_supply, ArcCvctMint'[m].total_supply_nonce>>
                   = <<job.output[2].ciphertexts, job.output[2].nonce>>
            /\ <<ArcVault'[v].total_locked, ArcVault'[v].total_locked_nonce>>
                   = <<job.output[3].ciphertexts, job.output[3].nonce>>
            /\ arc_decrypted(ArcCvctAccount'[a].owner_enc_pubkey,
                             ArcCvctAccount'[a].balance_nonce,
                             ArcCvctAccount'[a].balance)
                   = (pre(1, 1) + job.args[3]) % FieldMod
            /\ arc_decrypted(ArcCvctMint'[m].authority_enc_pubkey,
                             ArcCvctMint'[m].total_supply_nonce,
                             ArcCvctMint'[m].total_supply)
                   = (pre(2, 5) + job.args[3]) % FieldMod
            /\ arc_decrypted(ArcCvctMint'[m].authority_enc_pubkey,
                             ArcVault'[v].total_locked_nonce,
                             ArcVault'[v].total_locked)
                   = (pre(3, 8) + job.args[3]) % FieldMod]_vars

\* two deposits that read the same ciphertexts are both committed: custody
\* holds both amounts, the total supply only the later one
C8_Witness ==
    /\ arcOp.op = "deposit_and_mint_callback" /\ arcOp.ok
    /\ \E o \in JobsOfKind("deposit_and_mint") \ {arcOp.job} :
          /\ Computation[o].status = "Verified"
          /\ Computation[o].read = Computation[arcOp.job].read
          /\ Computation[o].callback_accounts = Computation[arcOp.job].callback_accounts
          /\ LET m == Computation[o].callback_accounts[2]
                 custody == ArcVault[ArcVaultPda(m)].backing_token_account
             IN  /\ ArcTokenAccount[custody].amount
                        = Computation[o].args[3] + Computation[arcOp.job].args[3]
                 /\ ArcSupply(m) = Computation[arcOp.job].args[3]

(***************************************************************************)
(* C9: after every successful instruction that changes a balance, the      *)
(* grant allow(new balance, owner) was issued for each changed account,    *)
(* whatever remaining accounts the caller supplied.  The code does not:    *)
(* it skips the grant when fewer remaining accounts are supplied, and      *)
(* run_payroll_for_member never grants.                                    *)
(***************************************************************************)
C9_GrantAfterEveryBalanceChange ==
    (lastOp.ok /\ lastOp.op \in {"deposit_and_mint", "burn_and_withdraw",
                                  "transfer_cvct", "run_payroll_for_member"}
               /\ lastOp.acct # lastOp.to) =>
        \A a \in {lastOp.acct, lastOp.to} \ {None} :
            Issued(lastOp.calls, allow(CvctAccount[a].balance, CvctAccount[a].owner))

(***************************************************************************)
(* C10: a transfer_cvct whose source and destination are the same record   *)
(* returns success, leaves every balance unchanged and makes no call to    *)
(* the encrypted-computation service.                                      *)
(***************************************************************************)
C10_SelfTransferIsNoOp ==
    [][(/\ lastOp'.op = "transfer_cvct" /\ lastOp'.acct # None
        /\ lastOp'.acct = lastOp'.to) =>
            /\ lastOp'.ok
            /\ lastOp'.calls = <<>>
            /\ UNCHANGED ledger]_vars

\* a self-transfer of an amount the balance covers returned success
C10_Witness ==
    /\ lastOp.op = "transfer_cvct" /\ lastOp.ok /\ lastOp.acct = lastOp.to
    /\ lastOp.amount > 0
    /\ decrypted(CvctAccount[lastOp.acct].balance) >= lastOp.amount

(***************************************************************************)
(* C11: in deposit_and_mint of both programs the custody transfer comes    *)
(* before the encrypted increments (synchronous) and before the job is     *)
(* queued (asynchronous); when the custody transfer fails, no balance,     *)
(* total supply or total locked changes and no job is queued.              *)
(***************************************************************************)
C11_CustodyTransferFirst ==
    [][/\ (lastOp'.op = "deposit_and_mint" /\ lastOp'.acct # None /\ UNCHANGED arc) =>
            LET user_tokens ==
                    TokenAccount[AtaPda(BackingMint, CvctAccount[lastOp'.acct].owner)].amount
            IN  /\ user_tokens < lastOp'.amount =>
                      (~lastOp'.ok /\ UNCHANGED ledger)
                /\ lastOp'.ok =>
                      /\ lastOp'.calls[1] = <<"transfer">>
                      /\ \A i \in 2..Len(lastOp'.calls) : lastOp'.calls[i] # <<"transfer">>
       /\ (arcOp'.op = "deposit_and_mint" /\ ~arcOp'.ok) =>
            UNCHANGED <<arcLedger, ArcTokenAccount, Computation>>
       /\ \A o \in DOMAIN Computation' \ DOMAIN Computation :
            Computation'[o].kind = "deposit_and_mint" =>
                LET custody == ArcVault[Computation'[o].callback_accounts[3]].backing_token_account
                IN  /\ ArcTokenAccount'[custody].amount
                           = ArcTokenAccount[custody].amount + Computation'[o].args[3]
                    /\ UNCHANGED arcLedger]_vars

\* in both programs a deposit failed in the custody transfer after one that
\* went through
C11_Witness ==
    /\ lastOp.op = "deposit_and_mint" /\ lastOp.err = "TokenInsufficientFunds"
    /\ arcOp.op = "deposit_and_mint" /\ arcOp.err = "TokenInsufficientFunds"
    /\ \E m \in DOMAIN CvctMint : decrypted(CvctMint[m].total_supply) > 0
    /\ JobsOfKind("deposit_and_mint") # {}

\* the member record a run of the scheduler was given: the one whose
\* cvct_wallet is the paid account
MemberOf(member_cvct_account) ==
    {ms \in DOMAIN PayrollMember : PayrollMember[ms].cvct_wallet = member_cvct_account}

\* C12: a successful run_payroll_for_member pays rate * periods_owed, with
\* periods_owed = 1 on the first payment and floor((now - last_paid) / interval)
\* afterwards: the treasury balance decreases by that amount, the member's
\* balance increases by it, and last_paid becomes now.
C12_PayrollAmount ==
    [][(lastOp'.op = "run_payroll_for_member" /\ lastOp'.ok /\ UNCHANGED arc) =>
          \E ms \in MemberOf(lastOp'.to) :
             LET L == PayrollMember[ms].last_paid
                 I == Payroll[PayrollMember[ms].payroll].interval
                 owed == IF L = 0 THEN 1 ELSE (now - L) \div I
                 amount == PayrollMember[ms].rate * owed
             IN  /\ lastOp'.amount = amount
                 /\ decrypted(CvctAccount'[lastOp'.acct].balance) =
                        decrypted(CvctAccount[lastOp'.acct].balance) - amount
                 /\ decrypted(CvctAccount'[lastOp'.to].balance) =
                        decrypted(CvctAccount[lastOp'.to].balance) + amount
                 /\ PayrollMember'[ms].last_paid = now]_vars

\* a step of run_payroll_for_member whose accounts passed their constraints
RunStep == lastOp'.op = "run_payroll_for_member" /\ lastOp'.acct # None /\ UNCHANGED arc

\* the payroll of member record ms exists, and it and the member are active
BothActive(ms) ==
    /\ PayrollMember[ms].payroll \in DOMAIN Payroll
    /\ Payroll[PayrollMember[ms].payroll].active
    /\ PayrollMember[ms].active

\* floor((now - last_paid) / interval) of member record ms
ElapsedPeriods(ms) ==
    (now - PayrollMember[ms].last_paid) \div Payroll[PayrollMember[ms].payroll].interval

\* C13: a run for an active member of an active payroll with last_paid # 0
\* and floor((now - last_paid) / interval) <= 0 fails with PayrollNotDue and
\* leaves the treasury balance, the member's balance and last_paid unchanged.
C13_PayrollNotDue ==
    [][RunStep =>
          \A ms \in MemberOf(lastOp'.to) :
             (/\ BothActive(ms)
              /\ PayrollMember[ms].last_paid # 0
              /\ ElapsedPeriods(ms) <= 0)
             => /\ ~lastOp'.ok /\ lastOp'.err = "PayrollNotDue"
                /\ UNCHANGED <<CvctAccount, PayrollMember>>]_vars

\* a second run at the timestamp of the member's payment was refused
C13_Witness ==
    /\ lastOp.op = "run_payroll_for_member" /\ lastOp.err = "PayrollNotDue"
    /\ \E ms \in MemberOf(lastOp.to) :
          /\ PayrollMember[ms].last_paid = now
          /\ decrypted(CvctAccount[lastOp.to].balance) > 0

\* rate * periods_owed of member record ms, as the scheduler's steps 4 and 5 state it
AmountOwed(ms) ==
    PayrollMember[ms].rate * (IF PayrollMember[ms].last_paid = 0 THEN 1 ELSE ElapsedPeriods(ms))

\* C14: a due run whose treasury balance is less than rate * periods_owed
\* fails with InsufficientFunds and leaves the treasury balance, the member's
\* balance and last_paid unchanged; no balance is ever below zero.
C14_InsufficientFunds ==
    [][/\ RunStep =>
            \A ms \in MemberOf(lastOp'.to) :
               (/\ BothActive(ms)
                /\ PayrollMember[ms].last_paid = 0 \/ ElapsedPeriods(ms) > 0
                /\ decrypted(CvctAccount[lastOp'.acct].balance) < AmountOwed(ms))
               => /\ ~lastOp'.ok /\ lastOp'.err = "InsufficientFunds"
                  /\ UNCHANGED <<CvctAccount, PayrollMember>>
       /\ \A a \in DOMAIN CvctAccount' : decrypted(CvctAccount'[a].balance) >= 0]_vars

\* a run was refused although the treasury held a part of the amount owed
C14_Witness ==
    /\ lastOp.op = "run_payroll_for_member" /\ lastOp.err = "InsufficientFunds"
    /\ decrypted(CvctAccount[lastOp.acct].balance) > 0
    /\ decrypted(CvctAccount[lastOp.acct].balance) < lastOp.amount

\* C15: while the payroll is inactive a run fails with PayrollNotActive, and
\* while the payroll is active and the member is inactive it fails with
\* MemberNotActive; no balance and no last_paid changes, whatever the time
\* elapsed.
C15_ActivityGate ==
    [][RunStep =>
          \A ms \in MemberOf(lastOp'.to) :
             PayrollMember[ms].payroll \in DOMAIN Payroll =>
                /\ ~Payroll[PayrollMember[ms].payroll].active =>
                      /\ ~lastOp'.ok /\ lastOp'.err = "PayrollNotActive"
                      /\ UNCHANGED <<CvctAccount, PayrollMember>>
                /\ (Payroll[PayrollMember[ms].payroll].active /\ ~PayrollMember[ms].active) =>
                      /\ ~lastOp'.ok /\ lastOp'.err = "MemberNotActive"
                      /\ UNCHANGED <<CvctAccount, PayrollMember>>]_vars

\* a run for a paused payroll was refused although the member is inactive
\* too, time has passed, the first payment is due and the treasury holds it
C15_Witness ==
    /\ lastOp.op = "run_payroll_for_member" /\ lastOp.err = "PayrollNotActive"
    /\ now = MaxTime
    /\ \E ms \in MemberOf(lastOp.to) :
          /\ ~PayrollMember[ms].active
          /\ PayrollMember[ms].last_paid = 0
          /\ decrypted(CvctAccount[lastOp.acct].balance) >= AmountOwed(ms)

\* C16: pause_payroll sets active to FALSE and resume_payroll sets it to TRUE,
\* changing nothing else, also when the flag already has that value;
\* close_payroll removes a paused payroll and fails with MustPauseFirst on an
\* active one, which stays in place.  A payroll starts active, only a pause
\* makes it inactive and only a close of an inactive payroll removes it:
\* every close is preceded by a pause with no resume in between.
C16_PayrollLifecycle ==
    [][UNCHANGED arc =>
         LET p == lastOp'.acct IN
         /\ (lastOp'.op = "pause_payroll" /\ lastOp'.ok) =>
               /\ Payroll' = [Payroll EXCEPT ![p].active = FALSE]
               /\ UNCHANGED <<ledger, Organization, PayrollMember, now>>
         /\ (lastOp'.op = "resume_payroll" /\ lastOp'.ok) =>
               /\ Payroll' = [Payroll EXCEPT ![p].active = TRUE]
               /\ UNCHANGED <<ledger, Organization, PayrollMember, now>>
         /\ (lastOp'.op = "close_payroll" /\ p # None) =>
               IF Payroll[p].active
               THEN /\ ~lastOp'.ok /\ lastOp'.err = "MustPauseFirst"
                    /\ UNCHANGED <<ledger, payroll, now>>
               ELSE /\ lastOp'.ok /\ p \notin DOMAIN Payroll'
         /\ \A q \in DOMAIN Payroll :
               /\ q \notin DOMAIN Payroll' =>
                     lastOp'.op = "close_payroll" /\ lastOp'.ok /\ ~Payroll[q].active
               /\ (q \in DOMAIN Payroll' /\ Payroll[q].active /\ ~Payroll'[q].active) =>
                     lastOp'.op = "pause_payroll" /\ lastOp'.ok /\ q = p
               /\ (q \in DOMAIN Payroll' /\ ~Payroll[q].active /\ Payroll'[q].active) =>
                     lastOp'.op = "resume_payroll" /\ lastOp'.ok /\ q = p
         /\ \A q \in DOMAIN Payroll' \ DOMAIN Payroll : Payroll'[q].active]_vars

\* a payroll that has paid a member was closed
C16_Witness ==
    /\ lastOp.op = "close_payroll" /\ lastOp.ok
    /\ lastOp.acct \notin DOMAIN Payroll
    /\ \E ms \in DOMAIN PayrollMember :
          PayrollMember[ms].payroll = lastOp.acct /\ PayrollMember[ms].last_paid # 0

\* the ciphertext and nonce fields of the records that exist
ArcFields ==
    [mint    |-> [m \in DOMAIN ArcCvctMint |->
                      <<ArcCvctMint[m].total_supply, ArcCvctMint[m].total_supply_nonce>>],
     vault   |-> [v \in DOMAIN ArcVault |->
                      <<ArcVault[v].total_locked, ArcVault[v].total_locked_nonce>>],
     account |-> [a \in DOMAIN ArcCvctAccount |->
                      <<ArcCvctAccount[a].balance, ArcCvctAccount[a].balance_nonce>>]]

\* some field of a record that exists before the step differs after it
ArcFieldChanged ==
    \/ \E m \in DOMAIN ArcCvctMint : ArcFields'.mint[m] # ArcFields.mint[m]
    \/ \E v \in DOMAIN ArcVault : ArcFields'.vault[v] # ArcFields.vault[v]
    \/ \E a \in DOMAIN ArcCvctAccount : ArcFields'.account[a] # ArcFields.account[a]

\* C17: in the asynchronous program the ciphertext and nonce fields of a
\* record that exists change only in a callback whose output verifies; the
\* queueing deposit_and_mint changes none of them, and no step other than a
\* callback (the cluster executing or aborting a job, another request) does.
C17_FieldsChangeOnlyInVerifiedCallback ==
    [][/\ ArcFieldChanged =>
             /\ arcOp'.op \in Callbacks /\ arcOp'.ok
             /\ verify_output(SignedOutput(arcOp'.job, arcOp'.signed))
       /\ (arcOp' # arcOp /\ arcOp'.op = "deposit_and_mint") => ~ArcFieldChanged]_vars

\* a deposit is queued for an initialized account and the cluster has not
\* answered
C17_Witness ==
    /\ arcOp.op = "abort"
    /\ \E o \in JobsOfKind("deposit_and_mint") :
          /\ Computation[o].status = "Queued"
          /\ ArcCvctAccount[Computation[o].callback_accounts[1]].balance_nonce # 0

\* C18: a job is created Queued, goes from Queued to Completed or Aborted and
\* from Completed to Verified, and Verified and Aborted are never left; after
\* a callback for job J was rejected or J was aborted, no callback for J
\* commits.
C18_JobLifecycle ==
    [][/\ \A o \in DOMAIN Computation' \ DOMAIN Computation :
             Computation'[o].status = "Queued"
       /\ \A o \in DOMAIN Computation :
             /\ o \in DOMAIN Computation'
             /\ \/ Computation'[o].status = Computation[o].status
                \/ Computation[o].status = "Queued"
                      /\ Computation'[o].status \in {"Completed", "Aborted"}
                \/ Computation[o].status = "Completed"
                      /\ Computation'[o].status = "Verified"
             /\ Computation[o].status = "Aborted" =>
                   ~(arcOp' # arcOp /\ arcOp'.op \in Callbacks /\ arcOp'.ok /\ arcOp'.job = o)
       /\ (arcOp.op \in Callbacks /\ ~arcOp.ok) =>
             ~(arcOp'.op \in Callbacks /\ arcOp'.ok /\ arcOp'.job = arcOp.job)]_vars

\* the outputs a record holds after a commit, each with the key it is
\* encrypted to and its nonce; an unwritten field has nonce 0
CommittedOutputs ==
    {[field |-> <<"total_supply", m>>, key |-> ArcCvctMint[m].authority_enc_pubkey,
      nonce |-> ArcCvctMint[m].total_supply_nonce] : m \in DOMAIN ArcCvctMint}
    \cup {[field |-> <<"total_locked", v>>,
           key |-> ArcCvctMint[ArcVault[v].cvct_mint].authority_enc_pubkey,
           nonce |-> ArcVault[v].total_locked_nonce] : v \in DOMAIN ArcVault}
    \cup {[field |-> <<"balance", a>>, key |-> ArcCvctAccount[a].owner_enc_pubkey,
           nonce |-> ArcCvctAccount[a].balance_nonce] : a \in DOMAIN ArcCvctAccount}

\* C19: no two committed outputs are stored with the same key and the same
\* nonce, whatever nonces the calls of initialize_cvct_mint,
\* initialize_cvct_account and deposit_and_mint pass.
C19_NonceFreshness ==
    \A x \in CommittedOutputs, y \in CommittedOutputs :
       (x # y /\ x.nonce # 0 /\ y.nonce # 0 /\ x.key = y.key) => x.nonce # y.nonce

\* the deposits committed to record r, the i-th callback account of the job
CommittedDeposits(r, i) ==
    {o \in JobsOfKind("deposit_and_mint") :
        Computation[o].status = "Verified" /\ Computation[o].callback_accounts[i] = r}

\* every record of the asynchronous program no deposit was committed to
\* holds an encryption of zero under its key and its stored nonce
ArcEncryptedZero ==
    /\ \A a \in DOMAIN ArcCvctAccount :
          CommittedDeposits(a, 1) = {} =>
             arc_decrypted(ArcCvctAccount[a].owner_enc_pubkey,
                           ArcCvctAccount[a].balance_nonce, ArcCvctAccount[a].balance) = 0
    /\ \A m \in DOMAIN ArcCvctMint :
          CommittedDeposits(m, 2) = {} =>
             arc_decrypted(ArcCvctMint[m].authority_enc_pubkey,
                           ArcCvctMint[m].total_supply_nonce, ArcCvctMint[m].total_supply) = 0
    /\ \A v \in DOMAIN ArcVault :
          CommittedDeposits(v, 3) = {} =>
             arc_decrypted(ArcCvctMint[ArcVault[v].cvct_mint].authority_enc_pubkey,
                           ArcVault[v].total_locked_nonce, ArcVault[v].total_locked) = 0

\* C20: a record holds an encryption of zero from its creation until the
\* first deposit, withdrawal or transfer committed to it: in the synchronous
\* program a record is created with the handle of zero, in the asynchronous
\* program every record no deposit was committed to decrypts to zero.
C20_EncryptedZeroInitialisation ==
    [][/\ \A m \in DOMAIN CvctMint' \ DOMAIN CvctMint :
             decrypted(CvctMint'[m].total_supply) = 0
       /\ \A v \in DOMAIN Vault' \ DOMAIN Vault :
             decrypted(Vault'[v].total_locked) = 0
       /\ \A a \in DOMAIN CvctAccount' \ DOMAIN CvctAccount :
             decrypted(CvctAccount'[a].balance) = 0
       /\ ArcEncryptedZero']_vars

\* C21: a transfer_cvct that succeeds moves balance between two accounts of
\* one mint, and leaves every mint's total_supply, every vault's total_locked
\* and every token account unchanged; a transfer_cvct that fails changes
\* nothing.
C21_TransferWithinOneMint ==
    [][(lastOp'.op = "transfer_cvct" /\ UNCHANGED arc) =>
          IF lastOp'.ok
          THEN /\ CvctAccount[lastOp'.acct].cvct_mint = CvctAccount[lastOp'.to].cvct_mint
               /\ UNCHANGED <<CvctMint, Vault, TokenAccount>>
          ELSE UNCHANGED <<ledger, payroll, now>>]_vars

\* a transfer moved balance to another account of the mint while an account
\* of another mint exists
C21_Witness ==
    /\ lastOp.op = "transfer_cvct" /\ lastOp.ok /\ lastOp.acct # lastOp.to
    /\ decrypted(CvctAccount[lastOp.to].balance) > 0
    /\ decrypted(CvctAccount[lastOp.acct].balance) = 0
    /\ \E a \in DOMAIN CvctAccount :
          CvctAccount[a].cvct_mint # CvctAccount[lastOp.to].cvct_mint

(***************************************************************************)
(* Signers of the synchronous program.                                     *)
(***************************************************************************)
\* the step fails and leaves the ledger, the payroll records and the clock
RejectedStep == ~lastOp'.ok /\ UNCHANGED <<ledger, payroll, now>>

UnauthorizedStep == RejectedStep /\ lastOp'.err = "Unauthorized"

\* the step is a call signed by someone other than the owner of the account
\* (ledger) or the authority of the organization (payroll); with earlier,
\* only calls whose account constraints before the signer's all pass
SignedByOther(earlier) ==
    \/ /\ lastOp'.op = "deposit_and_mint"
       /\ \E a \in DOMAIN CvctAccount : \E x \in AuthArgs(a) :
             /\ x[3] # CvctAccount[a].owner
             /\ earlier => /\ Vault[x[2]].cvct_mint = x[1]
                           /\ CvctAccount[a].cvct_mint = x[1]
             /\ deposit_and_mint(x[1], x[2], a, x[3], x[4], x[5], 1, <<>>)
    \/ /\ lastOp'.op = "burn_and_withdraw"
       /\ \E a \in DOMAIN CvctAccount : \E x \in AuthArgs(a) :
             /\ x[3] # CvctAccount[a].owner
             /\ earlier => /\ x[2] = VaultPda(CvctMint[x[1]].authority)
                           /\ Vault[x[2]].cvct_mint = x[1]
                           /\ CvctAccount[a].cvct_mint = x[1]
             /\ burn_and_withdraw(x[1], x[2], a, x[3], x[4], x[5], 1, <<>>)
    \/ /\ lastOp'.op = "transfer_cvct"
       /\ \E m \in DOMAIN CvctMint, f \in DOMAIN CvctAccount, t \in DOMAIN CvctAccount,
             from \in Wallets :
             /\ from # CvctAccount[f].owner
             /\ earlier => CvctAccount[f].cvct_mint = m
             /\ transfer_cvct(m, f, t, from, ClientCiphertext(1), 0, <<>>)
    \/ /\ lastOp'.op = "create_payroll"
       /\ \E org \in DOMAIN Organization, admin \in Wallets :
             /\ admin # Organization[org].authority
             /\ create_payroll(org, admin, 1)
    \/ /\ lastOp'.op = "add_payroll_member"
       /\ \E p \in DOMAIN Payroll, a \in DOMAIN CvctAccount, admin \in Wallets :
             /\ admin # Organization[Payroll[p].org].authority
             /\ add_payroll_member(Payroll[p].org, p, CvctAccount[a].owner, a, admin, 1)
    \/ /\ lastOp'.op = "update_payroll_member"
       /\ \E ms \in DOMAIN PayrollMember, admin \in Wallets, active \in BOOLEAN :
             /\ PayrollMember[ms].payroll \in DOMAIN Payroll
             /\ admin # Organization[Payroll[PayrollMember[ms].payroll].org].authority
             /\ update_payroll_member(Payroll[PayrollMember[ms].payroll].org,
                                      PayrollMember[ms].payroll, ms, admin, 1, active)
    \/ /\ lastOp'.op \in {"pause_payroll", "resume_payroll", "close_payroll"}
       /\ \E p \in DOMAIN Payroll, admin \in Wallets :
             /\ admin # Organization[Payroll[p].org].authority
             /\ \/ pause_payroll(Payroll[p].org, p, admin)
                \/ resume_payroll(Payroll[p].org, p, admin)
                \/ close_payroll(Payroll[p].org, p, admin)

Linkage ==
    /\ \A a \in DOMAIN CvctAccount : CvctAccount[a].cvct_mint \in DOMAIN CvctMint
    /\ \A v \in DOMAIN Vault :
          /\ Vault[v].cvct_mint \in DOMAIN CvctMint
          /\ Vault[v].backing_mint = CvctMint[Vault[v].cvct_mint].backing_mint
    /\ \A m \in DOMAIN CvctMint :
          Cardinality({v \in DOMAIN Vault : Vault[v].cvct_mint = m}) = 1

\* no record changes the mint it references
LinkageKept ==
    /\ \A a \in DOMAIN CvctAccount :
          a \in DOMAIN CvctAccount' /\ CvctAccount'[a].cvct_mint = CvctAccount[a].cvct_mint
    /\ \A v \in DOMAIN Vault :
          /\ v \in DOMAIN Vault'
          /\ Vault'[v].cvct_mint = Vault[v].cvct_mint
          /\ Vault'[v].backing_mint = Vault[v].backing_mint
          /\ Vault'[v].backing_token_account = Vault[v].backing_token_account
    /\ \A m \in DOMAIN CvctMint :
          m \in DOMAIN CvctMint' /\ CvctMint'[m].backing_mint = CvctMint[m].backing_mint

\* the step is a deposit or a withdrawal that names a vault of another mint,
\* or a custody token account other than the vault's
ForeignVault ==
    /\ lastOp'.op \in {"deposit_and_mint", "burn_and_withdraw"}
    /\ \E a \in DOMAIN CvctAccount, amount \in Amounts : \E x \in LinkageArgs(a) :
          /\ lastOp'.ok => (a = lastOp'.acct /\ amount = lastOp'.amount)
          /\ \/ Vault[x[2]].cvct_mint # x[1]
             \/ x[5] # Vault[x[2]].backing_token_account
          /\ \/ deposit_and_mint(x[1], x[2], a, x[3], x[4], x[5], amount, <<>>)
             \/ burn_and_withdraw(x[1], x[2], a, x[3], x[4], x[5], amount, <<>>)

\* C23: each account and each vault references exactly one mint, which never
\* changes; each mint has exactly one vault, whose backing_mint is the
\* mint's; a deposit or withdrawal that supplies a vault of another mint or
\* a custody token account other than vault.backing_token_account is
\* rejected and changes nothing.
C23_MintVaultLinkage ==
    [][UNCHANGED arc => /\ Linkage'
                        /\ LinkageKept
                        /\ RejectedStep \/ ~ForeignVault]_vars

\* a deposit into the vault of another mint was refused while both mints
\* exist and tokens are in custody
C23_Witness ==
    /\ lastOp.op = "deposit_and_mint" /\ lastOp.err = "InvalidVault"
    /\ Cardinality(DOMAIN Vault) = 2
    /\ \E v \in DOMAIN Vault : TokenAccount[Vault[v].backing_token_account].amount > 0

(***************************************************************************)
(* Zero amounts.                                                           *)
(***************************************************************************)
\* the step is a deposit or a withdrawal of amount 0 by the owner of the
\* account, with the derived vault and token accounts
ZeroAmountCall ==
    /\ lastOp'.op \in {"deposit_and_mint", "burn_and_withdraw"}
    /\ \E a \in DOMAIN CvctAccount :
          LET x == Derived(a) IN
          \/ deposit_and_mint(x[1], x[2], a, x[3], x[4], x[5], 0, <<>>)
          \/ burn_and_withdraw(x[1], x[2], a, x[3], x[4], x[5], 0, <<>>)

\* C24, synchronous entry points: deposit_and_mint and burn_and_withdraw
\* reject amount = 0 with ZeroAmount before any custody transfer or
\* encrypted mutation.
C24_ZeroAmountRejected ==
    [][UNCHANGED arc =>
          \/ RejectedStep /\ lastOp'.err = "ZeroAmount"
          \/ ~ZeroAmountCall]_vars

(***************************************************************************)
(* Backing of the synchronous ledger.                                      *)
(***************************************************************************)
\* C25: the token balance of every vault's custody account equals the
\* decrypted total_locked of the vault, after any sequence of deposits and
\* withdrawals.
C25_CustodyEqualsLocked ==
    \A v \in DOMAIN Vault :
        TokenAccount[Vault[v].backing_token_account].amount = decrypted(Vault[v].total_locked)

(***************************************************************************)
(* Backing of the asynchronous ledger.                                     *)
(***************************************************************************)
\* no job waits for the cluster or for its callback
NoJobPending ==
    \A o \in DOMAIN Computation : Computation[o].status \in {"Verified", "Aborted"}

\* the mints whose encrypted state the init callback has committed
ArcInitialisedMints ==
    {m \in DOMAIN ArcCvctMint :
        \E o \in JobsOfKind("init_mint_state") :
            Computation[o].status = "Verified" /\ Computation[o].callback_accounts[1] = m}

\* C26: whenever no deposit job is pending, the token balance of the
\* vault's custody account equals the decrypted total_locked of the vault:
\* every deposit whose custody transfer succeeded is reflected in the
\* encrypted totals, also when its job was aborted or overlapped another.
C26_ArcCustodyEqualsLocked ==
    NoJobPending =>
        \A m \in ArcInitialisedMints :
            ArcTokenAccount[ArcVault[ArcVaultPda(m)].backing_token_account].amount = ArcLocked(m)

(***************************************************************************)
(* Order of initialisation and deposits in the asynchronous program.       *)
(***************************************************************************)
\* C27: once a deposit_and_mint_callback has committed to an account, a
\* mint or a vault, no init_mint_state_callback or
\* init_account_state_callback commits to the same record afterwards.
C27_NoInitAfterDeposit ==
    [][(arcOp'.ok /\ UNCHANGED sync) =>
          /\ arcOp'.op = "init_mint_state_callback" =>
                /\ CommittedDeposits(Computation[arcOp'.job].callback_accounts[1], 2) = {}
                /\ CommittedDeposits(Computation[arcOp'.job].callback_accounts[2], 3) = {}
          /\ arcOp'.op = "init_account_state_callback" =>
                CommittedDeposits(Computation[arcOp'.job].callback_accounts[1], 1) = {}]_vars

(***************************************************************************)
(* Payroll and mints.                                                      *)
(***************************************************************************)
\* C28: in every successful run_payroll_for_member the debited treasury
\* account and the credited member account both have cvct_mint equal to
\* the organization's cvct_mint.
C28_PayrollWithinOneMint ==
    [][(lastOp'.op = "run_payroll_for_member" /\ lastOp'.ok /\ UNCHANGED arc) =>
          \A org \in DOMAIN Organization :
              Organization[org].cvct_treasury_vault = lastOp'.acct =>
                  /\ CvctAccount[lastOp'.acct].cvct_mint = Organization[org].cvct_mint
                  /\ CvctAccount[lastOp'.to].cvct_mint = Organization[org].cvct_mint]_vars

(***************************************************************************)
(* The treasury of an organization.                                        *)
(***************************************************************************)
\* C29: for every organization, the treasury account created by
\* init_org_treasury is the account recorded in org.cvct_treasury_vault,
\* the one run_payroll_for_member accepts and debits.
C29_TreasuryIdentity ==
    \A org \in DOMAIN Organization :
        OrgTreasuryPda(org) \in DOMAIN CvctAccount =>
            Organization[org].cvct_treasury_vault = OrgTreasuryPda(org)

(***************************************************************************)
(* Withdrawals of the synchronous program.                                 *)
(***************************************************************************)
\* what a withdrawal of amount burns from an account holding balance
EffectiveBurn(balance, amount) == IF balance >= amount THEN amount ELSE 0

\* C30: a successful burn_and_withdraw subtracts one effective value,
\* amount when balance >= amount and 0 otherwise, from the account balance,
\* the total supply and the total locked; when balance >= amount each of
\* the three decreases by exactly amount and the user receives amount
\* backing tokens.
C30_WithdrawLockstep ==
    [][(lastOp'.op = "burn_and_withdraw" /\ lastOp'.ok /\ UNCHANGED arc) =>
          LET a == lastOp'.acct
              m == CvctAccount[a].cvct_mint
              v == VaultPda(CvctMint[m].authority)
              ut == AtaPda(BackingMint, CvctAccount[a].owner)
              amount == lastOp'.amount
              effective == EffectiveBurn(decrypted(CvctAccount[a].balance), amount)
          IN  /\ decrypted(CvctAccount'[a].balance)
                    = decrypted(CvctAccount[a].balance) - effective
              /\ decrypted(CvctMint'[m].total_supply)
                    = decrypted(CvctMint[m].total_supply) - effective
              /\ decrypted(Vault'[v].total_locked)
                    = decrypted(Vault[v].total_locked) - effective
              /\ effective = amount =>
                    TokenAccount'[ut].amount = TokenAccount[ut].amount + amount]_vars

\* the owner of an account withdrew all that was issued: nothing is left in
\* the account, in supply or in custody, and the owner holds the tokens again
C30_Witness ==
    /\ lastOp.op = "burn_and_withdraw" /\ lastOp.ok /\ lastOp.amount > 0
    /\ decrypted(CvctAccount[lastOp.acct].balance) = 0
    /\ \A m \in DOMAIN CvctMint : decrypted(CvctMint[m].total_supply) = 0
    /\ \A v \in DOMAIN Vault : TokenAccount[Vault[v].backing_token_account].amount = 0
    /\ TokenAccount[AtaPda(BackingMint, CvctAccount[lastOp.acct].owner)].amount = InitTokens

(***************************************************************************)
(* The burn_and_withdraw circuit.                                          *)
(***************************************************************************)
\* the executed burn_and_withdraw jobs
ExecutedBurns ==
    {o \in JobsOfKind("burn_and_withdraw") : Computation[o].status = "Completed"}

\* the plaintext of the i-th encrypted input and of the i-th output of job
\* o, read with the key and nonce it is encrypted under
BurnInput(o, i) == to_arcis(Computation[o].args[i])
BurnOutput(o, i, shared) ==
    arc_decrypted(Computation[o].args[shared].key, Computation[o].output[i].nonce,
                  Computation[o].output[i].ciphertexts)

\* C31: the revealed boolean of the burn_and_withdraw circuit equals
\* (balance >= amount); if it is true the three outputs are the inputs minus
\* amount, otherwise the three inputs unchanged; each output is encrypted
\* for its own output context; and with supply = locked >= balance on input
\* no output is a wrapped difference.
C31_BurnCircuit ==
    \A o \in ExecutedBurns :
        LET balance == BurnInput(o, 1)
            amount  == Computation[o].args[2]
            supply  == BurnInput(o, 4)
            locked  == BurnInput(o, 6)
            out     == Computation[o].output
            ok      == out[4]
        IN  /\ ok = (balance >= amount)
            /\ out[5] = amount
            /\ out[1].nonce = Computation[o].args[3].nonce
            /\ out[2].nonce = Computation[o].args[5].nonce
            /\ out[3].nonce = Computation[o].args[7].nonce
            /\ ok => /\ BurnOutput(o, 1, 3) = balance - amount
                     /\ BurnOutput(o, 2, 5) = (supply - amount) % FieldMod
                     /\ BurnOutput(o, 3, 7) = (locked - amount) % FieldMod
            /\ ~ok => /\ BurnOutput(o, 1, 3) = balance
                      /\ BurnOutput(o, 2, 5) = supply
                      /\ BurnOutput(o, 3, 7) = locked
            /\ (ok /\ supply = locked /\ locked >= balance) =>
                     /\ BurnOutput(o, 2, 5) = supply - amount
                     /\ BurnOutput(o, 3, 7) = locked - amount

\* the circuit ran on a balance that does not cover a positive amount while
\* the totals are equal and cover the balance
C31_Witness ==
    \E o \in ExecutedBurns :
        /\ Computation[o].args[2] > BurnInput(o, 1)
        /\ BurnInput(o, 4) = BurnInput(o, 6) /\ BurnInput(o, 6) >= Computation[o].args[2]
        /\ ~Computation[o].output[4]

(***************************************************************************)
(* Atomicity of a withdrawal.                                              *)
(***************************************************************************)
\* the position of the first call of that name in a sequence of calls
FirstCall(calls, name) ==
    CHOOSE i \in 1..Len(calls) : calls[i][1] = name /\ \A j \in 1..(i - 1) : calls[j][1] # name

\* C32: in burn_and_withdraw the encrypted decrements are made before the
\* custody transfer; when the custody transfer out of the vault fails, the
\* whole operation fails and balance, total_supply and total_locked keep
\* their values.
C32_WithdrawAtomicity ==
    [][(lastOp'.op = "burn_and_withdraw" /\ UNCHANGED arc) =>
          IF lastOp'.ok
          THEN \A i \in 1..Len(lastOp'.calls) :
                   lastOp'.calls[i][1] = "e_sub" => i < FirstCall(lastOp'.calls, "transfer")
          ELSE UNCHANGED <<ledger, payroll, now>>]_vars

\* a withdrawal the balance covers failed on the custody transfer
C32_Witness ==
    /\ lastOp.op = "burn_and_withdraw" /\ ~lastOp.ok
    /\ lastOp.err = "TokenInsufficientFunds"
    /\ lastOp.amount > 0
    /\ decrypted(CvctAccount[lastOp.acct].balance) >= lastOp.amount

(***************************************************************************)
(* The amount of a payroll run.                                            *)
(***************************************************************************)
\* the periods the member record ms is owed now, and their price
PeriodsOwed(ms) ==
    periods_owed(PayrollMember[ms].last_paid,
                 Payroll[PayrollMember[ms].payroll].interval, now)
Product(ms) == PayrollMember[ms].rate * PeriodsOwed(ms)

\* the division of the run of member record ms is defined
Divides(ms) ==
    PayrollMember[ms].last_paid = 0 \/ Payroll[PayrollMember[ms].payroll].interval # 0

\* C33: a successful run_payroll_for_member pays exactly the product
\* rate * periods_owed, whatever the number of periods, and a run whose
\* product does not fit in u64 pays nothing: it fails and changes no state.
C33_PayrollProduct ==
    [][RunStep =>
          \A ms \in MemberOf(lastOp'.to) :
             (BothActive(ms) /\ Divides(ms)) =>
                /\ lastOp'.ok =>
                      /\ PeriodsOwed(ms) > 0
                      /\ lastOp'.amount = Product(ms)
                      /\ decrypted(CvctAccount'[lastOp'.acct].balance) =
                             decrypted(CvctAccount[lastOp'.acct].balance) - Product(ms)
                      /\ decrypted(CvctAccount'[lastOp'.to].balance) =
                             decrypted(CvctAccount[lastOp'.to].balance) + Product(ms)
                /\ (PeriodsOwed(ms) > 0 /\ Product(ms) >= U64) =>
                      /\ ~lastOp'.ok
                      /\ UNCHANGED <<ledger, payroll, now>>]_vars

(***************************************************************************)
(* The total paid to a member.                                             *)
(***************************************************************************)
\* what the member record ms has been paid: the member's account receives
\* nothing but payroll
TotalPaid(ms) == decrypted(CvctAccount[PayrollMember[ms].cvct_wallet].balance)

\* rate * (1 + floor((now - t1) / interval)) for the member record ms
PayoutBound(ms) ==
    PayrollMember[ms].rate *
        (1 + (now - FirstPayment) \div Payroll[PayrollMember[ms].payroll].interval)

\* C34: for a member with a constant rate on a payroll with a positive
\* interval, the total paid is at most rate * (1 + floor((now - t1) /
\* interval)), t1 being the time of the first payment, and nothing before
\* the first payment.
C34_PayoutBound ==
    \A ms \in DOMAIN PayrollMember :
        IF PayrollMember[ms].last_paid = 0 THEN TotalPaid(ms) = 0
        ELSE TotalPaid(ms) <= PayoutBound(ms)

\* a run was refused as not due although less than the bound has been paid
\* and the treasury could pay: the remainder of an earlier run is forfeited
C34_Witness ==
    /\ lastOp.op = "run_payroll_for_member" /\ lastOp.err = "PayrollNotDue"
    /\ \E ms \in MemberOf(lastOp.to) :
          /\ TotalPaid(ms) < PayoutBound(ms)
          /\ TotalPaid(ms) > PayrollMember[ms].rate
          /\ decrypted(CvctAccount[lastOp.acct].balance) >= PayrollMember[ms].rate

(***************************************************************************)
(* What a run's amount depends on.                                         *)
(***************************************************************************)
\* a step of pause_payroll, resume_payroll or update_payroll_member
AdminStep ==
    /\ lastOp'.op \in {"pause_payroll", "resume_payroll", "update_payroll_member"}
    /\ UNCHANGED arc

\* C35: pause_payroll, resume_payroll and update_payroll_member never change
\* a member's last_paid, and a successful run pays the member's current rate
\* for every period between last_paid and now, whatever was paused,
\* deactivated or re-rated in between.
C35_AccrualIgnoresHistory ==
    [][/\ \/ ~AdminStep
          \/ \A ms \in DOMAIN PayrollMember :
                /\ ms \in DOMAIN PayrollMember'
                /\ PayrollMember'[ms].last_paid = PayrollMember[ms].last_paid
       /\ \/ ~(RunStep /\ lastOp'.ok)
          \/ \A ms \in MemberOf(lastOp'.to) :
                /\ lastOp'.amount = Product(ms)
                /\ decrypted(CvctAccount'[lastOp'.to].balance) =
                       decrypted(CvctAccount[lastOp'.to].balance) + Product(ms)]_vars

(***************************************************************************)
(* Payrolls with a non-positive interval.                                  *)
(***************************************************************************)
\* the member record ms was paid before and its payroll's interval is not
\* positive
PaidOnNonPositive(ms) ==
    /\ PayrollMember[ms].payroll \in DOMAIN Payroll
    /\ Payroll[PayrollMember[ms].payroll].interval <= 0
    /\ PayrollMember[ms].last_paid # 0

\* C36: create_payroll stores whatever interval it is given; on a payroll
\* whose interval is not positive a member that was paid once is never paid
\* again: the run fails and changes no state, on the division when the
\* interval is 0 and with PayrollNotDue when it is negative.
C36_NonPositiveInterval ==
    [][/\ \/ ~(lastOp'.op = "create_payroll" /\ lastOp'.ok)
          \/ \E p \in DOMAIN Payroll' \ DOMAIN Payroll, interval \in AccrualIntervals :
                /\ create_payroll(Payroll'[p].org, Organization[Payroll'[p].org].authority,
                                  interval)
                /\ Payroll'[p].interval = interval
       /\ \/ ~(\E org \in DOMAIN Organization, interval \in AccrualIntervals :
                  /\ PayrollPda(org, Organization[org].authority) \notin DOMAIN Payroll
                  /\ create_payroll(org, Organization[org].authority, interval))
          \/ lastOp'.ok
       /\ \/ ~RunStep
          \/ \A ms \in MemberOf(lastOp'.to) :
                \/ ~PaidOnNonPositive(ms)
                \/ /\ ~lastOp'.ok
                   /\ UNCHANGED <<ledger, payroll, now>>
                   /\ BothActive(ms) =>
                         lastOp'.err =
                            IF Payroll[PayrollMember[ms].payroll].interval = 0
                            THEN "DivideByZero" ELSE "PayrollNotDue"]_vars

\* a run on a payroll with a negative interval was refused as not due long
\* after the member's only payment
C36_Witness ==
    /\ lastOp.op = "run_payroll_for_member" /\ lastOp.err = "PayrollNotDue"
    /\ \E ms \in MemberOf(lastOp.to) :
          /\ PaidOnNonPositive(ms)
          /\ Payroll[PayrollMember[ms].payroll].interval < 0
          /\ now - PayrollMember[ms].last_paid >= 2
          /\ TotalPaid(ms) = PayrollMember[ms].rate

(***************************************************************************)
(* Closing a payroll.                                                      *)
(***************************************************************************)
\* the payroll of the member record ms was closed after ms was attached to
\* it, and created again since
ClosedSinceAttached(ms) ==
    /\ PayrollMember[ms].payroll \in DOMAIN Payroll
    /\ Payroll[PayrollMember[ms].payroll].interval = LaterInterval

\* C37: once close_payroll has succeeded for a payroll, no run for a member
\* record that was attached to it succeeds any more, whatever is done
\* afterwards, create_payroll by the same organization and admin included.
C37_CloseIsFinal ==
    [][\/ ~(RunStep /\ lastOp'.ok)
       \/ \A ms \in MemberOf(lastOp'.to) : ~ClosedSinceAttached(ms)]_vars

(***************************************************************************)
(* The keys of the committed ciphertexts.                                  *)
(***************************************************************************)
\* the keys the outputs of deposit job o are encrypted under are the ones
\* recorded in the account and in the mint
UnderRecordedKeys(o) ==
    LET t == Computation[o].callback_accounts
        a == Computation[o].args
    IN  /\ a[4].key = ArcCvctAccount[t[1]].owner_enc_pubkey
        /\ a[7].key = ArcCvctMint[t[2]].authority_enc_pubkey
        /\ a[10].key = ArcCvctMint[t[2]].authority_enc_pubkey

\* C38: the ciphertexts a deposit commits are encrypted under the recorded
\* keys: the balance under CvctAccount.owner_enc_pubkey, total_supply and
\* total_locked under CvctMint.authority_enc_pubkey, whatever keys the
\* caller of deposit_and_mint supplies.
C38_KeyBinding ==
    \A o \in JobsOfKind("deposit_and_mint") :
        Computation[o].status = "Verified" => UnderRecordedKeys(o)

(***************************************************************************)
(* The shape of the deposit request.                                       *)
(***************************************************************************)
\* the parameters of the deposit_and_mint circuit, in order
CircuitParameters ==
    <<"balance", "amount", "owner_out", "total_supply", "mint_out", "total_locked",
      "vault_out">>

\* the arguments of a request in the order of the builder's calls: a key, a
\* nonce and a reference make an Enc input, a key and a nonce an output
\* context, a plaintext an integer
RequestShape(a) ==
    /\ Len(a) = 10
    /\ \A i \in {1, 4, 5, 7, 8, 10} : DOMAIN a[i] = {"key", "nonce"}
    /\ \A i \in {2, 6, 9} : DOMAIN a[i] = {"account", "offset", "length"}
    /\ a[3] \in Nat

\* the reference is the place of the named field in the record's layout
PointsAt(ref, account, layout, name) ==
    /\ ref.account = account
    /\ ref.offset = FieldOffset(layout, name) /\ ref.offset = 104
    /\ ref.length = FieldSize(layout, name) /\ ref.length = 32

\* the cluster executes a deposit job
ExecuteDepositStep ==
    /\ arcOp'.op = "execute" /\ UNCHANGED sync
    /\ arcOp'.job \in JobsOfKind("deposit_and_mint")

\* C39: the arguments of a deposit request are the circuit's parameters in
\* order (balance, amount, owner_out, total_supply, mint_out, total_locked,
\* vault_out), and the three references point at offset 104 with length 32,
\* the place of balance, total_supply and total_locked in the serialized
\* CvctAccount, CvctMint and Vault: the circuit runs on those ciphertexts.
C39_RequestShape ==
    [][\/ ~ExecuteDepositStep
       \/ LET a == Computation[arcOp'.job].args
              t == Computation[arcOp'.job].callback_accounts
          IN  /\ Len(CircuitParameters) = 7
              /\ RequestShape(a)
              /\ PointsAt(a[2], t[1], CvctAccountLayout, "balance")
              /\ PointsAt(a[6], t[2], CvctMintLayout, "total_supply")
              /\ PointsAt(a[9], t[3], VaultLayout, "total_locked")
              /\ Computation'[arcOp'.job].output =
                     circuit_deposit_and_mint(
                         EncArg(a[1].key, a[1].nonce, ArcCvctAccount[t[1]].balance),
                         a[3], a[4],
                         EncArg(a[5].key, a[5].nonce, ArcCvctMint[t[2]].total_supply),
                         a[7],
                         EncArg(a[8].key, a[8].nonce, ArcVault[t[3]].total_locked),
                         a[10])]_vars

\* a deposit job was executed on three ciphertexts that are not the
\* unwritten field
C39_Witness ==
    /\ arcOp.op = "execute"
    /\ arcOp.job \in JobsOfKind("deposit_and_mint")
    /\ Computation[arcOp.job].status = "Completed"
    /\ \A i \in 1..3 : Computation[arcOp.job].read[i] # ZeroCiphertext

=============================================================================
